---- MODULE Spec2Model ----
(***************************************************************************)
(* Buffer rotation, command encoding and life cycle of the Schrodinger     *)
(* FDTD integrators of gpgpu-Schrodinger.                                  *)
(*                                                                         *)
(* Every behaviour follows ONE integrator object, whose class is fixed by  *)
(* the variable kind:                                                      *)
(*   GL2       src/js/Schrodinger.js               WebGL, two textures     *)
(*   GLMur     src/js/SchrodingerMurBoundary.js    WebGL, three textures   *)
(*   GLPacked  src/js/SchrodingerLeapfrogPacked.js WebGL, three textures   *)
(*   GPU2      src/js/SchrodingerTuned.js          WebGPU, two buffers     *)
(*   GPU3      src/unnamed/part_005                WebGPU, three buffers   *)
(*   Staggered src/unnamed/part_007                WebGPU, staggered time  *)
(*   Tuned     src/unnamed/part_004                WebGPU, one workgroup   *)
(*                                                                         *)
(* JavaScript runs every handler to completion: the step(count) loops are  *)
(* synchronous, so the only thing that can happen while pc = "loop" is the *)
(* arrival of an event (ObserverStop); its handler, which calls stop(),    *)
(* runs when the call stack is empty again (pc = "idle").                  *)
(***************************************************************************)
EXTENDS Integers, Sequences, FiniteSets, TLC

VARIABLES
  kind,          \* the class of the integrator this behaviour follows
  phase,         \* "new" (before the constructor), "constructed", "ready"
  dt,            \* #dt
  xResolution,   \* #xResolution
  length,        \* #length
  iterations,    \* #iterations (Tuned), 0 elsewhere
  thrown,        \* the method whose call threw an Error, or "none"
  allocated,     \* the GPU buffers created so far (their labels)
  parametersBuffer, \* contents <<dt, xResolution, length>> of the parameters buffer
  \* ---- WebGL integrators
  step,          \* var step: the rotation index
  textures,      \* var textures: index -> texture id (0 is undefined)
  fbos,          \* var fbos: index -> framebuffer, a record [tex |-> attached texture]
  bcEnabled,     \* bcEnabled / #bcEnabled
  glFramebuffer, \* GL context: the framebuffer bound to gl.FRAMEBUFFER
  glUnits,       \* GL context: texture unit -> texture bound to it
  glLog,         \* one record per timestep() call, in call order
  \* ---- WebGPU integrators
  running,       \* #running
  pc,            \* "idle", or "loop" while a step(count) call is executing
  i,             \* the loop variable of step(count)
  count,         \* the argument of the step(count) call in progress
  encoder,       \* the passes encoded on the call's command encoder so far
  submitted,     \* the command buffer of the most recent queue.submit
  buf,           \* wave function buffer index -> time level it holds (-1: none)
  recent,        \* <<prev, last>>: the buffers written by the last two dispatches
  log,           \* the dispatches of the most recent submit, as executed
  calls,         \* the number of step calls made so far
  aligned,       \* each of them had a count that is a multiple of the number of buffers
  single,        \* each of them had count 1
  runningAtEntry, \* #running as the latest step call found it
  seed,          \* <<a, b>> of the last initialize(a, b), or <<>>
  boundarySet,   \* #boundary has been set (Staggered)
  stopPending,   \* an observer's stop event is queued, its handler not yet run
  stopAt,        \* value of i when a stop event arrived during the call, or -1
  \* ---- capability negotiation (Tuned) and the initializer
  adapterLimits, \* the adapter's [sizeX |-> ..., invocations |-> ...]
  workgroupSizeLimitAvailable,
  invocationLimitAvailable,
  initializerPhase, \* SchrodingerInitializer: "new", "constructed", "ready"
  w,             \* SchrodingerInitializer #w
  \* ---- the cells of the staggered scheme's buffers (Mur boundary kernels)
  waveFunction,    \* cell index -> [x |-> real part, y |-> imaginary part]
  oldWaveFunction, \* the same for the wave function one step earlier
  murCoefficient,  \* (phaseVelocity*dt - dx)/(phaseVelocity*dt + dx)
  lastPass,        \* the boundary pass executed last: "none", "real", "imaginary"
  passes,          \* the number of boundary passes executed
  \* ---- DumpSchrodinger's integrals (src/js/DumpSchrodinger.js)
  wavefunction,    \* the Float32Array argument: re0, im0, re1, im1, ...
  physicalLength,  \* the argument length
  integral,        \* the last result: [op |-> method, value |-> a rational]
  \* ---- DumpSchrodinger.dumpWavefunction and the device queue
  queue,           \* device.queue: the commands submitted and not yet executed
  buffer,          \* the argument buffer: the time level it holds
  gpuReadBuffer,   \* the read buffer of the call in progress (-1: nothing copied)
  dumpPc,          \* "off", "idle", "awaiting" (at await mapAsync), "done"
  result,          \* the Float32Array of the call that resolved last
  submittedBefore, \* the steps submitted before the last dumpWavefunction call
  stepsSubmitted,  \* the steps submitted so far
  \* ---- SchrodingerFreeParticle (src/unnamed/part_003)
  fpPhase,                \* "off", "new", "ready" (getInstance has resolved)
  fpXResolution,          \* #xResolution
  fpWaveFunctionBindGroup,\* #waveFunctionBindGroup: <<>> (undefined) or <<b0, b1>>
  timeBuffer,             \* #timeBuffer: <<>> (zeros) or <<t>>
  timeWaveFunctionBuffer, \* #timeWaveFunctionBuffer: <<>> (zeros) or <<t>> for Psi(x, t)
  fpOutcome,              \* how the last getTimeWaveFunction call ended
  \* ---- the index arithmetic of one kernel invocation
  gridSize,        \* parameters.xResolution
  invocation,      \* the invocation evaluated last: its kernel, index and the indices it computed
  \* ---- one dispatch of a kernel, its invocations interleaved
  kernel,              \* the entry point dispatched, or "none"
  threads,             \* index -> [pc, phase, own, plus, minus] of that invocation
  atDispatch,          \* waveFunction when the dispatch started
  outOfBounds,         \* what the device returns for a read past the end of a buffer
  updatedWaveFunction, \* the second buffer of the fused kernel
  loops,               \* the fused kernel's override constant iterations
  \* ---- one dispatch of the two-buffer timeStep kernel, invocation by invocation
  writes,          \* global invocation index -> stores made to updatedWaveFunction[index]
  launched,        \* the invocations that have run: those with index below it
  \* ---- the timestamp-instrumented integrator (src/js/Matrix.js:259-733)
  tsPhase,             \* "off", "new", "ready" (init() has resolved)
  hasTimestampQuery,   \* #hasTimestampQuery
  timestampCopyBuffer, \* #timestampCopyBuffer: "undefined", "unmapped", "pending", "mapped"
  stepCalls,           \* caller -> [pc, count, executed] of its step(count) call
  deviceError          \* the first error the device raised on the copy buffer, or "none"

integratorVars ==
  <<kind, phase, dt, xResolution, length, iterations, thrown, allocated,
    parametersBuffer, step, textures, fbos, bcEnabled, glFramebuffer,
    glUnits, glLog, running, pc, i, count, encoder, submitted, buf,
    recent, log, calls, aligned, single, runningAtEntry, seed, boundarySet, stopPending,
    stopAt, adapterLimits, workgroupSizeLimitAvailable, invocationLimitAvailable,
    initializerPhase, w>>

boundaryVars == <<waveFunction, oldWaveFunction, murCoefficient, lastPass, passes>>

\* What the integrator's methods leave alone: the state of the kernels and
\* helpers that are followed cell by cell in specifications of their own.
integralVars == <<wavefunction, physicalLength, integral>>

dumpVars ==
  <<queue, buffer, gpuReadBuffer, dumpPc, result, submittedBefore, stepsSubmitted>>

freeParticleVars ==
  <<fpPhase, fpXResolution, fpWaveFunctionBindGroup, timeBuffer,
    timeWaveFunctionBuffer, fpOutcome>>

\* The kernels followed invocation by invocation
indexVars == <<gridSize, invocation>>

passVars == <<kernel, threads, atDispatch, outOfBounds, updatedWaveFunction, loops>>

dispatchVars == <<writes, launched>>

timestampVars ==
  <<tsPhase, hasTimestampQuery, timestampCopyBuffer, stepCalls, deviceError>>

kernelVars == <<indexVars, passVars, dispatchVars, timestampVars>>

auxVars == <<boundaryVars, integralVars, dumpVars, freeParticleVars, kernelVars>>

vars == <<integratorVars, auxVars>>

glVars == <<step, textures, fbos, bcEnabled, glFramebuffer, glUnits, glLog>>
paramVars == <<dt, xResolution, length, iterations>>
gpuVars == <<running, pc, i, count, encoder, submitted, buf, recent, log,
             calls, aligned, single, runningAtEntry, seed, boundarySet,
             stopPending, stopAt>>
callVars == <<calls, aligned, single, runningAtEntry>>
limitVars == <<adapterLimits, workgroupSizeLimitAvailable, invocationLimitAvailable>>
initializerVars == <<initializerPhase, w>>

(***************************************************************************)
(* Bounds of the model.                                                    *)
(***************************************************************************)
MaxTimesteps == 6      \* timestep() calls followed per WebGL behaviour
MaxCalls == 2          \* step() calls followed per behaviour
MaxCount == 3          \* largest count passed to step(count)
NumTextures == 4       \* size of the pool the caller's textures come from

GLKinds == {"GL2", "GLMur", "GLPacked"}
GPUKinds == {"GPU2", "GPU3", "Staggered", "Tuned"}
Kinds == GLKinds \cup GPUKinds

DtValues == {0, 1}
LengthValues == {0, 1}
XResolutionValues == {2, 3, 4}
IterationValues == {1, 2}
WValues == {0, 1}
LimitValues == {3, 4}

\* What the spec calls a precondition violation: N < 3, dt <= 0, L <= 0.
InvalidComponents(d, x, l) ==
  (IF d <= 0 THEN 1 ELSE 0) + (IF x < 3 THEN 1 ELSE 0) + (IF l <= 0 THEN 1 ELSE 0)

\* The constructor arguments tried: valid ones, and ones with one invalid value.
Configurations ==
  {c \in DtValues \X XResolutionValues \X LengthValues :
     InvalidComponents(c[1], c[2], c[3]) <= 1}

\* The buffer pairs the page hands to initialize(buffer0, buffer1).
SeedPairs == {<<0, 1>>, <<1, 0>>, <<1, 2>>}

TextureIds == 1 .. NumTextures
NoTexture == 0
NoFramebuffer == [tex |-> NoTexture]
NoLevel == 0 - 1

PotentialTexture == NumTextures + 1

\* Number of wave function textures / buffers of each class.
NumBuffers(k) == IF k \in {"GL2", "GPU2", "Tuned", "Staggered"} THEN 2 ELSE 3

(***************************************************************************)
(* Init: the WebGL integrators right after their constructor (which does   *)
(* all of their set-up), the WebGPU integrators before theirs is called.   *)
(***************************************************************************)
\* No cell-level buffer is followed.
BoundaryIdle ==
  /\ waveFunction = <<>>
  /\ oldWaveFunction = <<>>
  /\ murCoefficient = 0
  /\ lastPass = "none"
  /\ passes = 0

\* A rational number num/den
Rational(n, d) == [num |-> n, den |-> d]
NoIntegral == [op |-> "none", value |-> Rational(0, 1)]

\* No array is being integrated.
IntegralIdle ==
  /\ wavefunction = <<>>
  /\ physicalLength = 0
  /\ integral = NoIntegral

\* No read-back is followed.
DumpIdle ==
  /\ queue = <<>>
  /\ buffer = NoLevel
  /\ gpuReadBuffer = NoLevel
  /\ dumpPc = "off"
  /\ result = NoLevel
  /\ submittedBefore = 0
  /\ stepsSubmitted = 0

\* No free particle object is followed.
FreeParticleIdle ==
  /\ fpPhase = "off"
  /\ fpXResolution = 0
  /\ fpWaveFunctionBindGroup = <<>>
  /\ timeBuffer = <<>>
  /\ timeWaveFunctionBuffer = <<>>
  /\ fpOutcome = "none"

\* No invocation has been evaluated.
NoInvocation == [kernel |-> "none"]
IndexIdle ==
  /\ gridSize = 0
  /\ invocation = NoInvocation

\* No kernel is followed invocation by invocation.
PassIdle ==
  /\ kernel = "none"
  /\ threads = <<>>
  /\ atDispatch = <<>>
  /\ outOfBounds = 0
  /\ updatedWaveFunction = <<>>
  /\ loops = 0

DispatchIdle ==
  /\ writes = <<>>
  /\ launched = 0

TimestampIdle ==
  /\ tsPhase = "off"
  /\ hasTimestampQuery = FALSE
  /\ timestampCopyBuffer = "undefined"
  /\ stepCalls = <<>>
  /\ deviceError = "none"

KernelIdle == IndexIdle /\ PassIdle /\ DispatchIdle /\ TimestampIdle

IntegratorInit ==
  /\ kind \in Kinds
  /\ phase = IF kind \in GLKinds THEN "constructed" ELSE "new"
  /\ dt = IF kind \in GLKinds THEN 1 ELSE 0
  /\ xResolution = IF kind \in GLKinds THEN 4 ELSE 0
  /\ length = IF kind \in GLKinds THEN 1 ELSE 0
  /\ iterations = 0
  /\ thrown = "none"
  /\ allocated = {}
  /\ parametersBuffer = <<>>
  /\ step = 0
  /\ textures = [j \in 0 .. NumBuffers(kind) - 1 |-> NoTexture]
  /\ fbos = [j \in 0 .. NumBuffers(kind) - 1 |-> NoFramebuffer]
  /\ bcEnabled = FALSE
  /\ glFramebuffer = NoFramebuffer
  /\ glUnits = [u \in 0 .. 2 |-> NoTexture]
  /\ glLog = <<>>
  /\ running = FALSE
  /\ pc = "idle"
  /\ i = 0
  /\ count = 0
  /\ encoder = <<>>
  /\ submitted = <<>>
  /\ buf = [j \in 0 .. NumBuffers(kind) - 1 |-> NoLevel]
  /\ recent = <<NoLevel, NoLevel>>
  /\ log = <<>>
  /\ calls = 0
  /\ aligned = TRUE
  /\ single = TRUE
  /\ runningAtEntry = FALSE
  /\ seed = <<>>
  /\ boundarySet = FALSE
  /\ stopPending = FALSE
  /\ stopAt = NoLevel
  /\ adapterLimits \in [sizeX : LimitValues, invocations : LimitValues]
  /\ (kind # "Tuned" => adapterLimits = [sizeX |-> 4, invocations |-> 4])
  /\ workgroupSizeLimitAvailable = FALSE
  /\ invocationLimitAvailable = FALSE
  /\ initializerPhase = "new"
  /\ w = 0

Init ==
  /\ IntegratorInit /\ BoundaryIdle /\ IntegralIdle /\ DumpIdle /\ FreeParticleIdle
  /\ KernelIdle

(***************************************************************************)
(* WebGL two-texture integrator: src/js/Schrodinger.js                     *)
(***************************************************************************)
\* setInitialTextures(texture0, texture1); attachFrameBuffer(t) gives a
\* framebuffer with t as its colour attachment.
Schrodinger_setInitialTextures(t0, t1) ==
  /\ kind = "GL2" /\ phase = "constructed"
  /\ textures' = [textures EXCEPT ![0] = t0, ![1] = t1]
  /\ fbos' = [fbos EXCEPT ![0] = [tex |-> t0], ![1] = [tex |-> t1]]
  /\ phase' = "ready"
  /\ UNCHANGED <<auxVars, kind, paramVars, thrown, allocated, parametersBuffer, step,
                 bcEnabled, glFramebuffer, glUnits, glLog, gpuVars, limitVars,
                 initializerVars>>

\* gl.bindFramebuffer(gl.FRAMEBUFFER, fbos[step]), evaluated before step advances
Schrodinger_TargetIndex == step

\* step = (step+1)%2
Schrodinger_NextStep == (step + 1) % 2

\* getRenderedTexture()
Schrodinger_getRenderedTexture == textures[(step + 1) % 2]

\* getSourceFramebuffer()
Schrodinger_getSourceFramebuffer == fbos[(step + 1) % 2]

\* timestep(): bind the target, advance step, bind textures[step] (the new
\* step) to unit 0 and the potential to unit 1, draw.
Schrodinger_timestep ==
  /\ kind = "GL2" /\ phase = "ready"
  /\ Len(glLog) < MaxTimesteps
  /\ glFramebuffer' = fbos[Schrodinger_TargetIndex]
  /\ step' = Schrodinger_NextStep
  /\ glUnits' = [glUnits EXCEPT ![0] = textures[step'], ![1] = PotentialTexture]
  /\ glLog' = Append(glLog, [target |-> glFramebuffer',
                             targetIndex |-> Schrodinger_TargetIndex,
                             old |-> NoTexture,
                             cur |-> glUnits'[0],
                             boundary |-> <<>>])
  /\ UNCHANGED <<auxVars, kind, phase, paramVars, thrown, allocated, parametersBuffer,
                 textures, fbos, bcEnabled, gpuVars, limitVars, initializerVars>>

(***************************************************************************)
(* WebGL three-texture integrator with Mur boundary:                       *)
(* src/js/SchrodingerMurBoundary.js (src/js/Matrix.js:856-958 is the same  *)
(* rotation without the boundary render).                                  *)
(***************************************************************************)
SchrodingerMurBoundary_setInitialTextures(t0, t1, t2) ==
  /\ kind = "GLMur" /\ phase = "constructed"
  /\ textures' = [textures EXCEPT ![0] = t0, ![1] = t1, ![2] = t2]
  /\ fbos' = [fbos EXCEPT ![0] = [tex |-> t0], ![1] = [tex |-> t1],
                          ![2] = [tex |-> t2]]
  /\ phase' = "ready"
  /\ UNCHANGED <<auxVars, kind, paramVars, thrown, allocated, parametersBuffer, step,
                 bcEnabled, glFramebuffer, glUnits, glLog, gpuVars, limitVars,
                 initializerVars>>

\* setBCEnabled(enabled)
SchrodingerMurBoundary_setBCEnabled(enabled) ==
  /\ kind = "GLMur"
  /\ bcEnabled' = enabled
  /\ UNCHANGED <<auxVars, kind, phase, paramVars, thrown, allocated, parametersBuffer,
                 step, textures, fbos, glFramebuffer, glUnits, glLog, gpuVars,
                 limitVars, initializerVars>>

\* gl.bindFramebuffer(gl.FRAMEBUFFER, fbos[(step+2)%3])
SchrodingerMurBoundary_TargetIndex == (step + 2) % 3

\* gl.bindTexture(gl.TEXTURE_2D, textures[step]) on unit 1: oldWaveFunction
SchrodingerMurBoundary_OldIndex == step

\* gl.bindTexture(gl.TEXTURE_2D, textures[(step+1)%3]) on unit 2: waveFunction
SchrodingerMurBoundary_CurrentIndexMutant == (step + 2) % 3
SchrodingerMurBoundary_CurrentIndex == (step + 1) % 3

\* step = (step+1)%3
SchrodingerMurBoundary_NextStep == (step + 1) % 3

\* getRenderedTexture()
SchrodingerMurBoundary_getRenderedTextureMutant == textures[(step + 2) % 3]
SchrodingerMurBoundary_getRenderedTexture == textures[(step + 1) % 3]

\* getSourceFramebuffers()
SchrodingerMurBoundary_getSourceFramebuffersMutant == <<fbos[(step + 1) % 3], fbos[step]>>
SchrodingerMurBoundary_getSourceFramebuffers == <<fbos[step], fbos[(step + 1) % 3]>>

\* getSourceTextures()
SchrodingerMurBoundary_getSourceTextures == <<textures[step], textures[(step + 1) % 3]>>

\* MurBoundary.render() (src/unnamed/part_002:198-226): draws the two edge
\* points with the framebuffer and the texture units 1 and 2 the interior
\* draw left bound.
MurBoundary_renderMutant(fb, units) == [target |-> fb, old |-> units[2], cur |-> units[1]]
MurBoundary_render(fb, units) == [target |-> fb, old |-> units[1], cur |-> units[2]]

\* timestep(): the interior draw, the boundary render when enabled, then
\* the rotation.
SchrodingerMurBoundary_timestep ==
  /\ kind = "GLMur" /\ phase = "ready"
  /\ Len(glLog) < MaxTimesteps
  /\ glFramebuffer' = fbos[SchrodingerMurBoundary_TargetIndex]
  /\ glUnits' = [glUnits EXCEPT ![1] = textures[SchrodingerMurBoundary_OldIndex],
                                ![2] = textures[SchrodingerMurBoundary_CurrentIndex]]
  /\ glLog' = Append(glLog, [target |-> glFramebuffer',
                             targetIndex |-> SchrodingerMurBoundary_TargetIndex,
                             old |-> glUnits'[1],
                             cur |-> glUnits'[2],
                             boundary |-> IF bcEnabled
                                          THEN <<MurBoundary_render(glFramebuffer', glUnits')>>
                                          ELSE <<>>])
  /\ step' = SchrodingerMurBoundary_NextStep
  /\ UNCHANGED <<auxVars, kind, phase, paramVars, thrown, allocated, parametersBuffer,
                 textures, fbos, bcEnabled, gpuVars, limitVars, initializerVars>>

(***************************************************************************)
(* WebGL three-texture leapfrog integrator:                                *)
(* src/js/SchrodingerLeapfrogPacked.js                                     *)
(***************************************************************************)
SchrodingerLeapfrogPacked_setInitialTextures(t0, t1, t2) ==
  /\ kind = "GLPacked" /\ phase = "constructed"
  /\ textures' = [textures EXCEPT ![0] = t0, ![1] = t1, ![2] = t2]
  /\ fbos' = [fbos EXCEPT ![0] = [tex |-> t0], ![1] = [tex |-> t1],
                          ![2] = [tex |-> t2]]
  /\ phase' = "ready"
  /\ UNCHANGED <<auxVars, kind, paramVars, thrown, allocated, parametersBuffer, step,
                 bcEnabled, glFramebuffer, glUnits, glLog, gpuVars, limitVars,
                 initializerVars>>

\* gl.bindFramebuffer(gl.FRAMEBUFFER, fbos[(step+2)%3])
SchrodingerLeapfrogPacked_TargetIndex == (step + 2) % 3

\* textures[step] on unit 0: oldWaveFunction
SchrodingerLeapfrogPacked_OldIndex == step

\* textures[(step+1)%3] on unit 1: waveFunction
SchrodingerLeapfrogPacked_CurrentIndex == (step + 1) % 3

\* step = (step+1)%3
SchrodingerLeapfrogPacked_NextStep == (step + 1) % 3

\* getRenderedTexture()
SchrodingerLeapfrogPacked_getRenderedTexture == textures[(step + 1) % 3]

\* getSourceFramebuffers()
SchrodingerLeapfrogPacked_getSourceFramebuffers == <<fbos[step], fbos[(step + 1) % 3]>>

\* timestep()
SchrodingerLeapfrogPacked_timestep ==
  /\ kind = "GLPacked" /\ phase = "ready"
  /\ Len(glLog) < MaxTimesteps
  /\ glFramebuffer' = fbos[SchrodingerLeapfrogPacked_TargetIndex]
  /\ glUnits' = [glUnits EXCEPT ![0] = textures[SchrodingerLeapfrogPacked_OldIndex],
                                ![1] = textures[SchrodingerLeapfrogPacked_CurrentIndex],
                                ![2] = PotentialTexture]
  /\ glLog' = Append(glLog, [target |-> glFramebuffer',
                             targetIndex |-> SchrodingerLeapfrogPacked_TargetIndex,
                             old |-> glUnits'[0],
                             cur |-> glUnits'[1],
                             boundary |-> <<>>])
  /\ step' = SchrodingerLeapfrogPacked_NextStep
  /\ UNCHANGED <<auxVars, kind, phase, paramVars, thrown, allocated, parametersBuffer,
                 textures, fbos, bcEnabled, gpuVars, limitVars, initializerVars>>

\* The caller's textures are distinct WebGL textures.
GLNext ==
  \/ \E t0, t1 \in TextureIds :
       t0 # t1 /\ Schrodinger_setInitialTextures(t0, t1)
  \/ Schrodinger_timestep
  \/ \E t0, t1, t2 \in TextureIds :
       /\ Cardinality({t0, t1, t2}) = 3
       /\ \/ SchrodingerMurBoundary_setInitialTextures(t0, t1, t2)
          \/ SchrodingerLeapfrogPacked_setInitialTextures(t0, t1, t2)
  \/ \E b \in BOOLEAN : SchrodingerMurBoundary_setBCEnabled(b)
  \/ SchrodingerMurBoundary_timestep
  \/ SchrodingerLeapfrogPacked_timestep


(***************************************************************************)
(* WebGPU two-buffer integrator: src/js/SchrodingerTuned.js                *)
(***************************************************************************)
NoBuffer == 0 - 1

\* constructor(dt, xResolution, length, debug): stores its arguments.
GPU2_constructor(d, x, l) ==
  /\ kind = "GPU2" /\ phase = "new"
  /\ dt' = d /\ xResolution' = x /\ length' = l
  /\ phase' = "constructed"
  /\ UNCHANGED <<auxVars, kind, iterations, thrown, allocated, parametersBuffer, glVars,
                 gpuVars, limitVars, initializerVars>>

\* init(): creates the parameters buffer from the fields, the two wave
\* function buffers and the two bind groups.
GPU2_init ==
  /\ kind = "GPU2" /\ phase = "constructed"
  /\ parametersBuffer' = <<dt, xResolution, length>>
  /\ allocated' = allocated \cup {"Parameters buffer", "Wave function 0", "Wave function 1"}
  /\ phase' = "ready"
  /\ UNCHANGED <<auxVars, kind, paramVars, thrown, glVars, gpuVars, limitVars, initializerVars>>

\* #waveFunctionBindGroup[g]: binding 0 (waveFunction, read) and binding 1
\* (updatedWaveFunction, written).
GPU2_waveFunctionBindGroupMutant(g) ==
  IF g = 0 THEN [read |-> 0, write |-> 1] ELSE [read |-> 1, write |-> 1]
GPU2_waveFunctionBindGroup(g) ==
  IF g = 0 THEN [read |-> 0, write |-> 1] ELSE [read |-> 1, write |-> 0]

\* setBindGroup(1, this.#waveFunctionBindGroup[i%2])
GPU2_BindGroupIndex(n) == n % 2

\* The timeStep kernel on the buffers b with bind group g: updatedWaveFunction
\* becomes waveFunction advanced by one time step.
GPU2_timeStep(b, g) ==
  LET bg == GPU2_waveFunctionBindGroup(g)
  IN [b EXCEPT ![bg.write] = IF b[bg.read] >= 0 THEN b[bg.read] + 1 ELSE NoLevel]

\* The queue executes the submitted dispatches in the order they were encoded.
RECURSIVE GPU2_Execute(_, _, _, _)
GPU2_Execute(cmds, b, r, acc) ==
  IF cmds = <<>> THEN [buf |-> b, recent |-> r, log |-> acc]
  ELSE LET bg == GPU2_waveFunctionBindGroup(Head(cmds).group)
           nb == GPU2_timeStep(b, Head(cmds).group)
       IN GPU2_Execute(Tail(cmds), nb, <<r[2], bg.write>>,
                       Append(acc, [old |-> NoBuffer, cur |-> bg.read, out |-> bg.write,
                                    oldLevel |-> NoLevel, curLevel |-> b[bg.read],
                                    newLevel |-> nb[bg.write], recentBefore |-> r]))

\* getTimeStep(), getXResolution(), getLength()
GPU2_getTimeStep == dt
GPU2_getXResolution == xResolution
GPU2_getLength == length

\* setTimeStep(dt), setXResolution(xResolution), setLength(length): each
\* assigns the field and returns this; the parameters buffer is not touched.
GPU2_setTimeStep(d) ==
  /\ kind = "GPU2" /\ phase # "new" /\ pc = "idle"
  /\ dt' = d
  /\ UNCHANGED <<auxVars, kind, phase, xResolution, length, iterations, thrown,
                 allocated, parametersBuffer, glVars, gpuVars, limitVars,
                 initializerVars>>

GPU2_setXResolution(x) ==
  /\ kind = "GPU2" /\ phase # "new" /\ pc = "idle"
  /\ xResolution' = x
  /\ UNCHANGED <<auxVars, kind, phase, dt, length, iterations, thrown,
                 allocated, parametersBuffer, glVars, gpuVars, limitVars,
                 initializerVars>>

GPU2_setLength(l) ==
  /\ kind = "GPU2" /\ phase # "new" /\ pc = "idle"
  /\ length' = l
  /\ UNCHANGED <<auxVars, kind, phase, dt, xResolution, iterations, thrown,
                 allocated, parametersBuffer, glVars, gpuVars, limitVars,
                 initializerVars>>

\* Math.ceil(x / 64)
WorkgroupCountMutant(x) == x \div 64
WorkgroupCount(x) == (x + 63) \div 64

\* const workgroupCountX = Math.ceil(this.#xResolution / 64)
GPU2_workgroupCountX == WorkgroupCount(xResolution)

\* stop(), called by the handler of the observer's event
GPU2_stop ==
  /\ kind = "GPU2" /\ pc = "idle" /\ stopPending
  /\ running' = FALSE
  /\ stopPending' = FALSE
  /\ UNCHANGED <<auxVars, kind, phase, paramVars, thrown, allocated, parametersBuffer,
                 glVars, pc, i, count, encoder, submitted, buf, recent, log,
                 callVars, seed, boundarySet, stopAt, limitVars, initializerVars>>

\* this.#running = true
GPU2_stepEntryMutant == running
GPU2_stepEntry == TRUE

\* step(count), entry: this.#running = true; a new command encoder; i = 0
GPU2_stepBegin(c) ==
  /\ kind = "GPU2" /\ phase = "ready" /\ pc = "idle"
  /\ calls < MaxCalls
  /\ running' = GPU2_stepEntry
  /\ encoder' = <<>>
  /\ i' = 0
  /\ count' = c
  /\ calls' = calls + 1
  /\ aligned' = (aligned /\ c % NumBuffers(kind) = 0)
  /\ single' = (single /\ c = 1)
  /\ runningAtEntry' = running
  /\ stopAt' = NoLevel
  /\ pc' = "loop"
  /\ UNCHANGED <<auxVars, kind, phase, paramVars, thrown, allocated, parametersBuffer,
                 glVars, submitted, buf, recent, log, seed, boundarySet,
                 stopPending, limitVars, initializerVars>>

\* step(count), one iteration of: for (let i=0; i<count && this.#running; i++)
GPU2_stepIteration ==
  /\ kind = "GPU2" /\ pc = "loop"
  /\ i < count /\ running
  /\ encoder' = Append(encoder, [kernel |-> "timeStep", group |-> GPU2_BindGroupIndex(i),
                                 iter |-> i, workgroups |-> GPU2_workgroupCountX])
  /\ i' = i + 1
  /\ UNCHANGED <<auxVars, kind, phase, paramVars, thrown, allocated, parametersBuffer,
                 glVars, running, pc, count, submitted, buf, recent, log,
                 callVars, seed, boundarySet, stopPending, stopAt, limitVars,
                 initializerVars>>

\* step(count), after the loop: passEncoder.end(), finish(), queue.submit()
GPU2_stepSubmit ==
  /\ kind = "GPU2" /\ pc = "loop"
  /\ ~(i < count /\ running)
  /\ LET r == GPU2_Execute(encoder, buf, recent, <<>>)
     IN /\ buf' = r.buf
        /\ recent' = r.recent
        /\ log' = r.log
  /\ submitted' = encoder
  /\ encoder' = <<>>
  /\ pc' = "idle"
  /\ stopAt' = NoLevel
  /\ UNCHANGED <<auxVars, kind, phase, paramVars, thrown, allocated, parametersBuffer,
                 glVars, running, i, count, callVars, seed, boundarySet,
                 stopPending, limitVars, initializerVars>>

(***************************************************************************)
(* WebGPU three-buffer integrator: src/unnamed/part_005                    *)
(***************************************************************************)
GPU3_constructor(d, x, l) ==
  /\ kind = "GPU3" /\ phase = "new"
  /\ dt' = d /\ xResolution' = x /\ length' = l
  /\ phase' = "constructed"
  /\ UNCHANGED <<auxVars, kind, iterations, thrown, allocated, parametersBuffer, glVars,
                 gpuVars, limitVars, initializerVars>>

GPU3_init ==
  /\ kind = "GPU3" /\ phase = "constructed"
  /\ parametersBuffer' = <<dt, xResolution, length>>
  /\ allocated' = allocated \cup {"Parameters buffer", "Wave function 0",
                                  "Wave function 1", "Wave function 2"}
  /\ phase' = "ready"
  /\ UNCHANGED <<auxVars, kind, paramVars, thrown, glVars, gpuVars, limitVars, initializerVars>>

\* #waveFunctionBindGroup[g]: binding 0 (oldWaveFunction), binding 1
\* (waveFunction), binding 2 (updatedWaveFunction).
GPU3_waveFunctionBindGroupMutant(g) ==
  CASE g = 0 -> [old |-> 0, cur |-> 1, out |-> 2]
    [] g = 1 -> [old |-> 2, cur |-> 1, out |-> 0]
    [] OTHER -> [old |-> 2, cur |-> 0, out |-> 1]
GPU3_waveFunctionBindGroup(g) ==
  CASE g = 0 -> [old |-> 0, cur |-> 1, out |-> 2]
    [] g = 1 -> [old |-> 1, cur |-> 2, out |-> 0]
    [] OTHER -> [old |-> 2, cur |-> 0, out |-> 1]

\* setBindGroup(1, this.#waveFunctionBindGroup[i%3])
GPU3_BindGroupIndex(n) == n % 3

\* The timeStep kernel: updatedWaveFunction = oldWaveFunction + 2 dt H(waveFunction),
\* the time level after waveFunction's when oldWaveFunction is the level before it.
GPU3_timeStep(b, g) ==
  LET bg == GPU3_waveFunctionBindGroup(g)
  IN [b EXCEPT ![bg.out] = IF b[bg.old] >= 0 /\ b[bg.cur] = b[bg.old] + 1
                           THEN b[bg.cur] + 1 ELSE NoLevel]

RECURSIVE GPU3_Execute(_, _, _, _)
GPU3_Execute(cmds, b, r, acc) ==
  IF cmds = <<>> THEN [buf |-> b, recent |-> r, log |-> acc]
  ELSE LET bg == GPU3_waveFunctionBindGroup(Head(cmds).group)
           nb == GPU3_timeStep(b, Head(cmds).group)
       IN GPU3_Execute(Tail(cmds), nb, <<r[2], bg.out>>,
                       Append(acc, [old |-> bg.old, cur |-> bg.cur, out |-> bg.out,
                                    oldLevel |-> b[bg.old], curLevel |-> b[bg.cur],
                                    newLevel |-> nb[bg.out], recentBefore |-> r]))

GPU3_stop ==
  /\ kind = "GPU3" /\ pc = "idle" /\ stopPending
  /\ running' = FALSE
  /\ stopPending' = FALSE
  /\ UNCHANGED <<auxVars, kind, phase, paramVars, thrown, allocated, parametersBuffer,
                 glVars, pc, i, count, encoder, submitted, buf, recent, log,
                 callVars, seed, boundarySet, stopAt, limitVars, initializerVars>>

GPU3_stepBegin(c) ==
  /\ kind = "GPU3" /\ phase = "ready" /\ pc = "idle"
  /\ calls < MaxCalls
  /\ running' = TRUE
  /\ encoder' = <<>>
  /\ i' = 0
  /\ count' = c
  /\ calls' = calls + 1
  /\ aligned' = (aligned /\ c % NumBuffers(kind) = 0)
  /\ single' = (single /\ c = 1)
  /\ runningAtEntry' = running
  /\ stopAt' = NoLevel
  /\ pc' = "loop"
  /\ UNCHANGED <<auxVars, kind, phase, paramVars, thrown, allocated, parametersBuffer,
                 glVars, submitted, buf, recent, log, seed, boundarySet,
                 stopPending, limitVars, initializerVars>>

GPU3_stepIteration ==
  /\ kind = "GPU3" /\ pc = "loop"
  /\ i < count /\ running
  /\ encoder' = Append(encoder, [kernel |-> "timeStep", group |-> GPU3_BindGroupIndex(i),
                                 iter |-> i])
  /\ i' = i + 1
  /\ UNCHANGED <<auxVars, kind, phase, paramVars, thrown, allocated, parametersBuffer,
                 glVars, running, pc, count, submitted, buf, recent, log,
                 callVars, seed, boundarySet, stopPending, stopAt, limitVars,
                 initializerVars>>

GPU3_stepSubmit ==
  /\ kind = "GPU3" /\ pc = "loop"
  /\ ~(i < count /\ running)
  /\ LET r == GPU3_Execute(encoder, buf, recent, <<>>)
     IN /\ buf' = r.buf
        /\ recent' = r.recent
        /\ log' = r.log
  /\ submitted' = encoder
  /\ encoder' = <<>>
  /\ pc' = "idle"
  /\ stopAt' = NoLevel
  /\ UNCHANGED <<auxVars, kind, phase, paramVars, thrown, allocated, parametersBuffer,
                 glVars, running, i, count, callVars, seed, boundarySet,
                 stopPending, limitVars, initializerVars>>

(***************************************************************************)
(* SchrodingerInitializer: src/unnamed/part_001, seeding the buffers of    *)
(* the three-buffer integrator.                                            *)
(***************************************************************************)
\* constructor(device, ..., xResolution, x0, w, k): stores its arguments. The
\* device is the integrator's; the workgroup-tuned integrator has one only
\* when both limits were available.
SchrodingerInitializer_constructor(wv) ==
  /\ kind \in {"GPU3", "Tuned"} /\ phase = "ready" /\ pc = "idle"
  /\ (kind = "Tuned") => (workgroupSizeLimitAvailable /\ invocationLimitAvailable)
  /\ initializerPhase = "new"
  /\ w' = wv
  /\ initializerPhase' = "constructed"
  /\ UNCHANGED <<auxVars, kind, phase, paramVars, thrown, allocated, parametersBuffer,
                 glVars, gpuVars, limitVars>>

\* init(): the shader module, the wave packet parameters buffer, the pipelines
SchrodingerInitializer_init ==
  /\ initializerPhase = "constructed" /\ pc = "idle"
  /\ allocated' = allocated \cup {"Wave packet Parameters"}
  /\ initializerPhase' = "ready"
  /\ UNCHANGED <<auxVars, kind, phase, paramVars, thrown, parametersBuffer, glVars,
                 gpuVars, limitVars, w>>

\* computeInitialValues: waveFunction0 = Psi(x, 0), waveFunction1 = Psi(x, dt)
computeInitialValues(b, b0, b1) == [b EXCEPT ![b0] = 0, ![b1] = 1]

\* initialize(waveFunctionBuffer0, waveFunctionBuffer1): one dispatch of
\* computeInitialValues on the two buffers, submitted.
SchrodingerInitializer_initialize(b0, b1) ==
  /\ initializerPhase = "ready" /\ pc = "idle"
  /\ calls = 0
  /\ {b0, b1} \subseteq DOMAIN buf
  /\ buf' = computeInitialValues(buf, b0, b1)
  /\ seed' = <<b0, b1>>
  /\ UNCHANGED <<auxVars, kind, phase, paramVars, thrown, allocated, parametersBuffer,
                 glVars, running, pc, i, count, encoder, submitted, recent, log,
                 callVars, boundarySet,
                 stopPending, stopAt, limitVars, initializerVars>>


(***************************************************************************)
(* WebGPU staggered-time integrator: src/unnamed/part_007, with the Mur    *)
(* boundary delegate of src/unnamed/part_009.                              *)
(***************************************************************************)
Staggered_constructor(d, x, l) ==
  /\ kind = "Staggered" /\ phase = "new"
  /\ dt' = d /\ xResolution' = x /\ length' = l
  /\ phase' = "constructed"
  /\ UNCHANGED <<auxVars, kind, iterations, thrown, allocated, parametersBuffer, glVars,
                 gpuVars, limitVars, initializerVars>>

Staggered_init ==
  /\ kind = "Staggered" /\ phase = "constructed"
  /\ parametersBuffer' = <<dt, xResolution, length>>
  /\ allocated' = allocated \cup {"Parameters buffer", "Wave function", "Old Wave function"}
  /\ phase' = "ready"
  /\ UNCHANGED <<auxVars, kind, paramVars, thrown, glVars, gpuVars, limitVars, initializerVars>>

\* setBoundary(boundary) with a MurBoundary built by its getInstance, whose
\* init() creates the boundary parameters buffer; its constructor needs the integrator's
\* device and bind groups, which exist once init() has resolved.
Staggered_setBoundary ==
  /\ kind = "Staggered" /\ phase = "ready" /\ pc = "idle"
  /\ boundarySet' = TRUE
  /\ allocated' = allocated \cup {"Boundary parameters buffer"}
  /\ UNCHANGED <<auxVars, kind, phase, paramVars, thrown, parametersBuffer, glVars,
                 running, pc, i, count, encoder, submitted, buf, recent, log,
                 callVars, seed, stopPending, stopAt, limitVars, initializerVars>>

\* setBCEnabled(enabled)
Staggered_setBCEnabled(enabled) ==
  /\ kind = "Staggered" /\ phase # "new" /\ pc = "idle"
  /\ bcEnabled' = enabled
  /\ UNCHANGED <<auxVars, kind, phase, paramVars, thrown, allocated, parametersBuffer,
                 step, textures, fbos, glFramebuffer, glUnits, glLog, gpuVars,
                 limitVars, initializerVars>>

\* isBCEnabled(): "return bcEnabled;" names no binding of the module (the
\* field is this.#bcEnabled), so evaluating it throws a ReferenceError and
\* the call returns nothing.
Staggered_isBCEnabled ==
  /\ kind = "Staggered" /\ phase # "new" /\ pc = "idle"
  /\ thrown' = "isBCEnabled"
  /\ UNCHANGED <<auxVars, kind, phase, paramVars, allocated, parametersBuffer,
                 glVars, gpuVars, limitVars, initializerVars>>

Staggered_stop ==
  /\ kind = "Staggered" /\ pc = "idle" /\ stopPending
  /\ running' = FALSE
  /\ stopPending' = FALSE
  /\ UNCHANGED <<auxVars, kind, phase, paramVars, thrown, allocated, parametersBuffer,
                 glVars, pc, i, count, encoder, submitted, buf, recent, log,
                 callVars, seed, boundarySet, stopAt, limitVars, initializerVars>>

\* The compute pass of the real part: pipeline #realPartTimeStep
Staggered_realPass(enc, it) ==
  Append(enc, [kernel |-> "realPartTimeStep", group |-> 0, iter |-> it])

\* The compute pass of the imaginary part: pipeline #imaginaryPartTimeStep
Staggered_imaginaryPassMutant(enc, it) == enc
Staggered_imaginaryPass(enc, it) ==
  Append(enc, [kernel |-> "imaginaryPartTimeStep", group |-> 0, iter |-> it])

\* MurBoundary.makeRealComputePass: pipeline #boundaryValueRealPipeline, whose
\* entry point is recomputeRealBoundary
MurBoundary_makeRealComputePass(enc, it) ==
  Append(enc, [kernel |-> "recomputeRealBoundary", group |-> 0, iter |-> it])

\* MurBoundary.makeImaginaryComputePass: pipeline #boundaryValueImaginaryPipeline,
\* whose entry point is recomputeImaginaryBoundary
MurBoundary_makeImaginaryComputePass(enc, it) ==
  Append(enc, [kernel |-> "recomputeImaginaryBoundary", group |-> 0, iter |-> it])

\* The body of the loop of step(count) with a boundary delegate
Staggered_iterationWithBoundaryMutant(enc, it) ==
  MurBoundary_makeImaginaryComputePass(
    MurBoundary_makeRealComputePass(
      Staggered_imaginaryPass(Staggered_realPass(enc, it), it), it), it)
Staggered_iterationWithBoundary(enc, it) ==
  MurBoundary_makeImaginaryComputePass(
    Staggered_imaginaryPass(
      MurBoundary_makeRealComputePass(Staggered_realPass(enc, it), it), it), it)

\* The body of the loop of step(count) when #bcEnabled is false
Staggered_iterationPlain(enc, it) ==
  Staggered_imaginaryPass(Staggered_realPass(enc, it), it)

Staggered_stepBegin(c) ==
  /\ kind = "Staggered" /\ phase = "ready" /\ pc = "idle"
  /\ calls < MaxCalls
  /\ running' = TRUE
  /\ encoder' = <<>>
  /\ i' = 0
  /\ count' = c
  /\ calls' = calls + 1
  /\ aligned' = (aligned /\ c % NumBuffers(kind) = 0)
  /\ single' = (single /\ c = 1)
  /\ runningAtEntry' = running
  /\ stopAt' = NoLevel
  /\ pc' = "loop"
  /\ UNCHANGED <<auxVars, kind, phase, paramVars, thrown, allocated, parametersBuffer,
                 glVars, submitted, buf, recent, log, seed, boundarySet,
                 stopPending, limitVars, initializerVars>>

\* One iteration of the loop. With #bcEnabled set and no #boundary, the call
\* this.#boundary.makeRealComputePass throws a TypeError out of step(): the
\* encoder is dropped and nothing is submitted.
Staggered_stepIteration ==
  /\ kind = "Staggered" /\ pc = "loop"
  /\ i < count /\ running
  /\ IF bcEnabled /\ ~boundarySet
     THEN /\ thrown' = "step"
          /\ encoder' = <<>>
          /\ pc' = "idle"
          /\ stopAt' = NoLevel
          /\ UNCHANGED i
     ELSE /\ encoder' = IF bcEnabled THEN Staggered_iterationWithBoundary(encoder, i)
                        ELSE Staggered_iterationPlain(encoder, i)
          /\ i' = i + 1
          /\ UNCHANGED <<thrown, pc, stopAt>>
  /\ UNCHANGED <<auxVars, kind, phase, paramVars, allocated, parametersBuffer,
                 glVars, running, count, submitted, buf, recent, log,
                 callVars, seed, boundarySet, stopPending, limitVars,
                 initializerVars>>

Staggered_stepSubmit ==
  /\ kind = "Staggered" /\ pc = "loop"
  /\ ~(i < count /\ running)
  /\ submitted' = encoder
  /\ encoder' = <<>>
  /\ pc' = "idle"
  /\ stopAt' = NoLevel
  /\ UNCHANGED <<auxVars, kind, phase, paramVars, thrown, allocated, parametersBuffer,
                 glVars, running, i, count, buf, recent, log, callVars, seed,
                 boundarySet, stopPending, limitVars, initializerVars>>

(***************************************************************************)
(* WebGPU workgroup-tuned integrator: src/unnamed/part_004                 *)
(***************************************************************************)
Tuned_constructor(d, x, l, n) ==
  /\ kind = "Tuned" /\ phase = "new"
  /\ dt' = d /\ xResolution' = x /\ length' = l /\ iterations' = n
  /\ phase' = "constructed"
  /\ UNCHANGED <<auxVars, kind, thrown, allocated, parametersBuffer, glVars,
                 gpuVars, limitVars, initializerVars>>

\* WebGPUCompute.checkLimit (src/js/WebGPUCompute.js:122-127)
checkLimit(limitValue, targetValue) == limitValue >= targetValue

\* init(): records the two limit checks; the device, the pipeline and the
\* buffers are created only when both hold; returns this in either case.
Tuned_init ==
  /\ kind = "Tuned" /\ phase = "constructed"
  /\ workgroupSizeLimitAvailable' = checkLimit(adapterLimits.sizeX, xResolution)
  /\ invocationLimitAvailable' = checkLimit(adapterLimits.invocations, xResolution)
  /\ IF workgroupSizeLimitAvailable' /\ invocationLimitAvailable'
     THEN /\ parametersBuffer' = <<dt, xResolution, length>>
          /\ allocated' = allocated \cup {"Parameters buffer", "Wave function 0",
                                          "Wave function 1"}
     ELSE UNCHANGED <<parametersBuffer, allocated>>
  /\ phase' = "ready"
  /\ UNCHANGED <<auxVars, kind, paramVars, thrown, glVars, gpuVars, adapterLimits,
                 initializerVars>>

Tuned_stop ==
  /\ kind = "Tuned" /\ pc = "idle" /\ stopPending
  /\ running' = FALSE
  /\ stopPending' = FALSE
  /\ UNCHANGED <<auxVars, kind, phase, paramVars, thrown, allocated, parametersBuffer,
                 glVars, pc, i, count, encoder, submitted, buf, recent, log,
                 callVars, seed, boundarySet, stopAt, limitVars, initializerVars>>

\* The guards at the head of step()
Tuned_stepThrowsMutant == FALSE
Tuned_stepThrows == ~workgroupSizeLimitAvailable \/ ~invocationLimitAvailable

\* The timeSteps kernel: per loop iteration waveFunction -> updatedWaveFunction
\* and updatedWaveFunction -> waveFunction, each one time step.
Tuned_timeStepsMutant(b, n) ==
  [b EXCEPT ![0] = IF b[0] >= 0 THEN b[0] + n ELSE NoLevel,
            ![1] = IF b[0] >= 0 THEN b[0] + n - 1 ELSE NoLevel]
Tuned_timeSteps(b, n) ==
  [b EXCEPT ![0] = IF b[0] >= 0 THEN b[0] + 2 * n ELSE NoLevel,
            ![1] = IF b[0] >= 0 THEN b[0] + 2 * n - 1 ELSE NoLevel]

\* step(): throws when a limit is unavailable, otherwise one dispatch of one
\* workgroup of the timeSteps pipeline, submitted.
Tuned_step ==
  /\ kind = "Tuned" /\ phase = "ready" /\ pc = "idle"
  /\ calls < MaxCalls
  /\ IF Tuned_stepThrows
     THEN /\ thrown' = "step"
          /\ UNCHANGED <<submitted, buf, calls>>
     ELSE /\ submitted' = <<[kernel |-> "timeSteps", group |-> 0, iter |-> 0]>>
          /\ buf' = Tuned_timeSteps(buf, iterations)
          /\ calls' = calls + 1
          /\ UNCHANGED thrown
  /\ UNCHANGED <<auxVars, kind, phase, paramVars, allocated, parametersBuffer, glVars,
                 running, pc, i, count, encoder, recent, log, aligned, single,
                 runningAtEntry,
                 seed, boundarySet, stopPending, stopAt, limitVars, initializerVars>>

(***************************************************************************)
(* The page around the integrator: an observer's event (a click, a timer)  *)
(* whose handler calls stop() can arrive at any time, also while a         *)
(* step(count) call is executing; the handler runs once the call returned. *)
(***************************************************************************)
ObserverStop ==
  /\ kind \in GPUKinds /\ phase = "ready"
  /\ ~stopPending
  /\ stopPending' = TRUE
  /\ stopAt' = IF pc = "loop" /\ stopAt = NoLevel THEN i ELSE stopAt
  /\ UNCHANGED <<auxVars, kind, phase, paramVars, thrown, allocated, parametersBuffer,
                 glVars, running, pc, i, count, encoder, submitted, buf, recent,
                 log, callVars, seed, boundarySet, limitVars, initializerVars>>

GPUNext ==
  \/ \E c \in Configurations :
       \/ GPU2_constructor(c[1], c[2], c[3])
       \/ GPU3_constructor(c[1], c[2], c[3])
       \/ Staggered_constructor(c[1], c[2], c[3])
       \/ \E n \in IterationValues : Tuned_constructor(c[1], c[2], c[3], n)
  \/ GPU2_init
  \/ GPU3_init
  \/ Staggered_init
  \/ Tuned_init
  \/ \E c \in 0 .. MaxCount :
       \/ GPU2_stepBegin(c)
       \/ GPU3_stepBegin(c)
       \/ Staggered_stepBegin(c)
  \/ GPU2_stepIteration
  \/ GPU2_stepSubmit
  \/ GPU3_stepIteration
  \/ GPU3_stepSubmit
  \/ Staggered_stepIteration
  \/ Staggered_stepSubmit
  \/ Tuned_step
  \/ GPU2_stop
  \/ GPU3_stop
  \/ Staggered_stop
  \/ Tuned_stop
  \/ ObserverStop
  \/ Staggered_setBoundary
  \/ \E b \in BOOLEAN : Staggered_setBCEnabled(b)
  \/ Staggered_isBCEnabled
  \/ \E wv \in WValues : SchrodingerInitializer_constructor(wv)
  \/ SchrodingerInitializer_init
  \/ \E p \in SeedPairs : SchrodingerInitializer_initialize(p[1], p[2])

Next == GLNext \/ GPUNext

Spec == Init /\ [][Next]_vars

(***************************************************************************)
(* WGSL u32 arithmetic. A u32 is held as two 16-bit halves, so that every  *)
(* intermediate value stays within the checker's integers; the operations  *)
(* wrap modulo 2^32 as the shader's do.                                    *)
(***************************************************************************)
Two16 == 65536

\* The u32 of a number 0 .. 2^16 - 1
U32(n) == [hi |-> 0, lo |-> n]

\* The number of a u32 below 2^31
U32Value(a) == a.hi * Two16 + a.lo

\* a + b
U32Add(a, b) ==
  [hi |-> (a.hi + b.hi + ((a.lo + b.lo) \div Two16)) % Two16,
   lo |-> (a.lo + b.lo) % Two16]

\* a - b
U32Sub(a, b) ==
  [hi |-> (a.hi - b.hi - (IF a.lo < b.lo THEN 1 ELSE 0) + Two16) % Two16,
   lo |-> (a.lo - b.lo + Two16) % Two16]

\* The low 16 bits of x * y, for 16-bit x and y
Mul16(x, y) == (x * (y % 256) + ((x * (y \div 256)) % 256) * 256) % Two16

\* The bits 16 and up of x * y, for 16-bit x and y
Mul16High(x, y) ==
  ((x * (y % 256) + ((x * (y \div 256)) % 256) * 256) \div Two16)
    + ((x * (y \div 256)) \div 256)

\* a * b
U32Mul(a, b) ==
  [hi |-> (Mul16High(a.lo, b.lo) + Mul16(a.hi, b.lo) + Mul16(a.lo, b.hi)) % Two16,
   lo |-> Mul16(a.lo, b.lo)]

\* a <= b
U32LessEq(a, b) == a.hi < b.hi \/ (a.hi = b.hi /\ a.lo <= b.lo)

\* min(a, b), max(a, b)
U32Min(a, b) == IF U32LessEq(a, b) THEN a ELSE b
U32Max(a, b) == IF U32LessEq(a, b) THEN b ELSE a

\* let offset = 1 - 2*index
MurOffsetMutant(index) == U32Sub(U32Mul(U32(2), index), U32(1))
MurOffset(index) == U32Sub(U32(1), U32Mul(U32(2), index))

\* let sotrageBufferIndex = index*(parameters.xResolution-1)
MurStorageBufferIndex(n, index) == U32Mul(index, U32Sub(n, U32(1)))

\* sotrageBufferIndex+offset
MurNeighbourIndex(n, index) == U32Add(MurStorageBufferIndex(n, index), MurOffset(index))

\* waveFunction[min(index+1, parameters.xResolution-1)]
timeStep_plusIndex(n, index) == U32Min(U32Add(index, U32(1)), U32Sub(n, U32(1)))

\* waveFunction[max(index-1, 0)]
timeStep_minusIndex(n, index) == U32Max(U32Sub(index, U32(1)), U32(0))

(***************************************************************************)
(* The Mur boundary kernels of the staggered scheme, cell by cell:         *)
(* src/unnamed/part_009:76-102. One workgroup of two invocations, index 0  *)
(* for the left edge and index 1 for the right edge.                       *)
(***************************************************************************)
MaxPasses == 3         \* boundary passes followed per behaviour

CellValues == {0, 1}
CellCounts == {2, 3}
\* (phaseVelocity*dt - dx)/(phaseVelocity*dt + dx): -1 for E = 0, 0 for
\* phaseVelocity*dt = dx
MurCoefficients == {0 - 1, 0}
Components == {"x", "y"}

\* parameters.xResolution of the buffer wf
CellCount(wf) == Cardinality(DOMAIN wf)

\* let sotrageBufferIndex = index*(parameters.xResolution-1)
MurEdgeMutant(n, index) == index * (n - 1) + (1 - 2 * index)
MurEdge(n, index) == index * (n - 1)

\* sotrageBufferIndex+offset with offset = 1 - 2*index; in u32 the offset of
\* index 1 wraps to 2^32 - 1 and the sum wraps back to xResolution - 2.
MurNeighbour(n, index) == U32Value(MurNeighbourIndex(U32(n), U32(index)))

\* The value one invocation stores in component c of its edge cell
recomputeBoundaryMutant(wf, old, coefficient, index, c) ==
  LET n == CellCount(wf)
  IN wf[MurNeighbour(n, index)][c]
       + coefficient * (wf[MurNeighbour(n, index)][c] - old[MurEdge(n, index)][c])
recomputeBoundary(wf, old, coefficient, index, c) ==
  LET n == CellCount(wf)
  IN old[MurNeighbour(n, index)][c]
       + coefficient * (wf[MurNeighbour(n, index)][c] - old[MurEdge(n, index)][c])

\* One dispatch of the kernel for component c. The two invocations are not
\* synchronised: with two cells each reads the cell the other writes, and
\* order says which of them, if any, sees the other's store.
MurBoundary_pass(wf, old, coefficient, c, order) ==
  LET n == CellCount(wf)
      first == IF order = "rightFirst" THEN 1 ELSE 0
      second == 1 - first
      wf1 == [wf EXCEPT ![MurEdge(n, first)][c] =
                recomputeBoundary(wf, old, coefficient, first, c)]
      seen == IF order = "parallel" THEN wf ELSE wf1
  IN [wf1 EXCEPT ![MurEdge(n, second)][c] =
        recomputeBoundary(seen, old, coefficient, second, c)]

Orders == {"parallel", "leftFirst", "rightFirst"}

\* fn recomputeRealBoundary, dispatched by makeRealComputePass
recomputeRealBoundary(order) ==
  /\ waveFunction # <<>> /\ passes < MaxPasses
  /\ waveFunction' = MurBoundary_pass(waveFunction, oldWaveFunction, murCoefficient,
                                      "x", order)
  /\ lastPass' = "real"
  /\ passes' = passes + 1
  /\ UNCHANGED <<integratorVars, kernelVars, integralVars, dumpVars, freeParticleVars,
                 oldWaveFunction, murCoefficient>>

\* fn recomputeImaginaryBoundary, dispatched by makeImaginaryComputePass
recomputeImaginaryBoundary(order) ==
  /\ waveFunction # <<>> /\ passes < MaxPasses
  /\ waveFunction' = MurBoundary_pass(waveFunction, oldWaveFunction, murCoefficient,
                                      "y", order)
  /\ lastPass' = "imaginary"
  /\ passes' = passes + 1
  /\ UNCHANGED <<integratorVars, kernelVars, integralVars, dumpVars, freeParticleVars,
                 oldWaveFunction, murCoefficient>>

\* Any contents of the two buffers of a staggered integrator
BoundaryInit ==
  /\ IntegratorInit /\ kind = "Staggered"
  /\ \E n \in CellCounts :
       /\ waveFunction \in [0 .. n - 1 -> [x : CellValues, y : CellValues]]
       /\ oldWaveFunction \in [0 .. n - 1 -> [x : CellValues, y : CellValues]]
  /\ murCoefficient \in MurCoefficients
  /\ lastPass = "none"
  /\ passes = 0
  /\ IntegralIdle /\ DumpIdle /\ FreeParticleIdle /\ KernelIdle

BoundaryNext ==
  \E order \in Orders :
    \/ recomputeRealBoundary(order)
    \/ recomputeImaginaryBoundary(order)

BoundarySpec == BoundaryInit /\ [][BoundaryNext]_vars

(***************************************************************************)
(* DumpSchrodinger's integrals of |Psi|^2: src/js/DumpSchrodinger.js:58-106 *)
(* Exact rational arithmetic stands for the code's floating point.         *)
(***************************************************************************)
MaxPoints == 5         \* largest number of samples N of an integrated array

SampleValues == {0, 1}
PhysicalLengths == {1, 2}

RatAdd(a, b) == Rational(a.num * b.den + b.num * a.den, a.den * b.den)
RatMul(a, b) == Rational(a.num * b.num, a.den * b.den)
RatEq(a, b) == a.num * b.den = b.num * a.den

\* wavefunction[k] of the JavaScript array (indices from 0)
At(wf, k) == wf[k + 1]

\* wavefunction[2*j]*wavefunction[2*j] + wavefunction[2*j+1]*wavefunction[2*j+1]
Magnitude2(wf, j) == At(wf, 2 * j) * At(wf, 2 * j) + At(wf, 2 * j + 1) * At(wf, 2 * j + 1)

\* const nIntervals = wavefunction.length/2.0 - 1.0
nIntervalsMutant(wf) == Len(wf) \div 2 - 2
nIntervals(wf) == Len(wf) \div 2 - 1

\* for (let i=0; i<nIntervals; i++) sum += ((|Psi_i|^2 + |Psi_i+1|^2)/2.0) * dx
RECURSIVE integrateWaveFunction_loop(_, _, _, _)
integrateWaveFunction_loop(wf, dx, j, sum) ==
  IF j < nIntervals(wf)
  THEN integrateWaveFunction_loop(wf, dx, j + 1,
         RatAdd(sum, RatMul(Rational(Magnitude2(wf, j) + Magnitude2(wf, j + 1), 2), dx)))
  ELSE sum

\* integrateWaveFunction(wavefunction, length)
integrateWaveFunction(wf, len) ==
  integrateWaveFunction_loop(wf, Rational(len, nIntervals(wf)), 0, Rational(0, 1))

\* for (let i=1; i<nPoints-2; i++) sum += ((i%2+1)*2)*|Psi_i|^2
RECURSIVE simpson_loop(_, _, _)
simpson_loop(wf, j, sum) ==
  IF j < Len(wf) \div 2 - 2
  THEN simpson_loop(wf, j + 1, sum + (((j % 2) + 1) * 2) * Magnitude2(wf, j))
  ELSE sum

\* simpson(wavefunction, length)
simpson(wf, len) ==
  LET nPoints == Len(wf) \div 2
      sum == simpson_loop(wf, 1, Magnitude2(wf, 0)) + Magnitude2(wf, nPoints - 1)
  IN Rational(len * sum, 3 * (nPoints - 1))

DumpSchrodinger_integrateWaveFunction ==
  /\ wavefunction # <<>>
  /\ integral' = [op |-> "trapezoid",
                  value |-> integrateWaveFunction(wavefunction, physicalLength)]
  /\ UNCHANGED <<integratorVars, kernelVars, boundaryVars, dumpVars, freeParticleVars,
                 wavefunction, physicalLength>>

DumpSchrodinger_simpson ==
  /\ wavefunction # <<>>
  /\ integral' = [op |-> "simpson", value |-> simpson(wavefunction, physicalLength)]
  /\ UNCHANGED <<integratorVars, kernelVars, boundaryVars, dumpVars, freeParticleVars,
                 wavefunction, physicalLength>>

\* Any array of N >= 2 complex samples and any positive length
IntegralInit ==
  /\ IntegratorInit /\ kind = "GPU2"
  /\ BoundaryIdle /\ DumpIdle /\ FreeParticleIdle /\ KernelIdle
  /\ \E n \in 2 .. MaxPoints : wavefunction \in [1 .. 2 * n -> SampleValues]
  /\ physicalLength \in PhysicalLengths
  /\ integral = NoIntegral

IntegralNext ==
  \/ DumpSchrodinger_integrateWaveFunction
  \/ DumpSchrodinger_simpson

IntegralSpec == IntegralInit /\ [][IntegralNext]_vars

(***************************************************************************)
(* The two-buffer WebGPU integrator with its setters in use:               *)
(* src/js/SchrodingerTuned.js:79-138                                       *)
(***************************************************************************)
\* The values handed to setXResolution: one with the workgroup count of the
\* constructor's values, one that needs a second workgroup.
SetterXResolutionValues == {4, 65}

SetterInit == Init /\ kind = "GPU2"

SetterNext ==
  \/ \E c \in Configurations : GPU2_constructor(c[1], c[2], c[3])
  \/ GPU2_init
  \/ \E d \in DtValues : GPU2_setTimeStep(d)
  \/ \E x \in SetterXResolutionValues : GPU2_setXResolution(x)
  \/ \E l \in LengthValues : GPU2_setLength(l)
  \/ \E c \in 0 .. MaxCount : GPU2_stepBegin(c)
  \/ GPU2_stepIteration
  \/ GPU2_stepSubmit

SetterSpec == SetterInit /\ [][SetterNext]_vars

(***************************************************************************)
(* DumpSchrodinger.dumpWavefunction: src/js/DumpSchrodinger.js:27-56, with *)
(* the device queue it shares with an integrator's step(). A "step"        *)
(* command advances the buffer by one time level; commands execute in the  *)
(* order of their submission.                                              *)
(***************************************************************************)
MaxSubmitted == 4

\* step(1) of the integrator that owns the buffer: queue.submit
\* (src/js/SchrodingerTuned.js:418-437). It may be called whenever no
\* handler is running, also while dumpWavefunction is suspended at its await.
Dump_step ==
  /\ dumpPc # "off"
  /\ stepsSubmitted < MaxSubmitted
  /\ queue' = Append(queue, "step")
  /\ stepsSubmitted' = stepsSubmitted + 1
  /\ UNCHANGED <<integratorVars, kernelVars, boundaryVars, integralVars, freeParticleVars,
                 buffer, gpuReadBuffer, dumpPc, result, submittedBefore>>

\* The device executes the command at the head of the queue.
Device_execute ==
  /\ dumpPc # "off"
  /\ queue # <<>>
  /\ queue' = Tail(queue)
  /\ IF Head(queue) = "step"
     THEN buffer' = buffer + 1 /\ UNCHANGED gpuReadBuffer
     ELSE gpuReadBuffer' = buffer /\ UNCHANGED buffer
  /\ UNCHANGED <<integratorVars, kernelVars, boundaryVars, integralVars, freeParticleVars,
                 dumpPc, result, submittedBefore, stepsSubmitted>>

\* dumpWavefunction(buffer) up to its await: createBuffer, copyBufferToBuffer,
\* queue.submit([copyCommands]), gpuReadBuffer.mapAsync(GPUMapMode.READ)
dumpWavefunction_call ==
  /\ dumpPc \in {"idle", "done"}
  /\ gpuReadBuffer' = NoLevel
  /\ queue' = Append(queue, "copy")
  /\ submittedBefore' = stepsSubmitted
  /\ dumpPc' = "awaiting"
  /\ UNCHANGED <<integratorVars, kernelVars, boundaryVars, integralVars, freeParticleVars,
                 buffer, result, stepsSubmitted>>

\* new Float32Array(copyArrayBuffer.slice()): a copy of the read buffer's
\* mapped range
dumpWavefunction_resultMutant == buffer
dumpWavefunction_result == gpuReadBuffer

\* mapAsync resolves once the commands submitted before it have executed;
\* the function then copies the mapped range, destroys the read buffer and
\* returns.
dumpWavefunction_resume ==
  /\ dumpPc = "awaiting"
  /\ \A n \in 1 .. Len(queue) : queue[n] # "copy"
  /\ result' = dumpWavefunction_result
  /\ gpuReadBuffer' = NoLevel
  /\ dumpPc' = "done"
  /\ UNCHANGED <<integratorVars, kernelVars, boundaryVars, integralVars, freeParticleVars,
                 queue, buffer, submittedBefore, stepsSubmitted>>

DumpInit ==
  /\ IntegratorInit /\ kind = "GPU2"
  /\ BoundaryIdle /\ IntegralIdle /\ FreeParticleIdle /\ KernelIdle
  /\ queue = <<>>
  /\ buffer = 0
  /\ gpuReadBuffer = NoLevel
  /\ dumpPc = "idle"
  /\ result = NoLevel
  /\ submittedBefore = 0
  /\ stepsSubmitted = 0

DumpNext ==
  \/ Dump_step
  \/ Device_execute
  \/ dumpWavefunction_call
  \/ dumpWavefunction_resume

DumpSpec == DumpInit /\ [][DumpNext]_vars

(***************************************************************************)
(* SchrodingerFreeParticle: src/unnamed/part_003                           *)
(***************************************************************************)
MaxTime == 3
TimeValues == 0 .. MaxTime

\* getInstance(device, parametersBindGroup, parametersBindGroupLayout,
\* xResolution, x0, w, k): the constructor, then init(), which creates the
\* layouts, the pipelines, the time buffers and #timeBindGroup, and leaves
\* #waveFunctionBindGroup undefined.
FreeParticle_getInstance(x) ==
  /\ fpPhase = "new"
  /\ fpXResolution' = x
  /\ fpPhase' = "ready"
  /\ UNCHANGED <<integratorVars, kernelVars, boundaryVars, integralVars, dumpVars,
                 fpWaveFunctionBindGroup, timeBuffer, timeWaveFunctionBuffer,
                 fpOutcome>>

\* initialize(waveFunctionBuffer0, waveFunctionBuffer1)
FreeParticle_initialize(b0, b1) ==
  /\ fpPhase = "ready"
  /\ fpWaveFunctionBindGroup' = <<b0, b1>>
  /\ UNCHANGED <<integratorVars, kernelVars, boundaryVars, integralVars, dumpVars,
                 fpPhase, fpXResolution, timeBuffer, timeWaveFunctionBuffer,
                 fpOutcome>>

\* The bind groups of timeEvolvedPipeline's layout: groups 0..3, group 2
\* being this.#waveFunctionBindGroup.
FreeParticle_bindGroupsSet == fpWaveFunctionBindGroup # <<>>

\* getTimeWaveFunction(time): queue.writeBuffer(#timeBuffer, ...), then the
\* pass with setBindGroup(0..3) and dispatchWorkgroups. With
\* #waveFunctionBindGroup undefined, setBindGroup(2, undefined) either throws
\* a TypeError or leaves group 2 unset, and then the dispatch fails
\* validation against the pipeline layout: no kernel runs.
FreeParticle_getTimeWaveFunction(time) ==
  /\ fpPhase = "ready"
  /\ timeBuffer' = <<time>>
  /\ IF FreeParticle_bindGroupsSet
     THEN /\ timeWaveFunctionBuffer' = <<time>>
          /\ fpOutcome' = "filled"
     ELSE /\ UNCHANGED timeWaveFunctionBuffer
          /\ fpOutcome' \in {"TypeError", "validationError"}
  /\ UNCHANGED <<integratorVars, kernelVars, boundaryVars, integralVars, dumpVars,
                 fpPhase, fpXResolution, fpWaveFunctionBindGroup>>

FreeParticleInit ==
  /\ IntegratorInit /\ kind = "GPU2"
  /\ BoundaryIdle /\ IntegralIdle /\ DumpIdle /\ KernelIdle
  /\ fpPhase = "new"
  /\ fpXResolution = 0
  /\ fpWaveFunctionBindGroup = <<>>
  /\ timeBuffer = <<>>
  /\ timeWaveFunctionBuffer = <<>>
  /\ fpOutcome = "none"

FreeParticleNext ==
  \/ \E x \in XResolutionValues : FreeParticle_getInstance(x)
  \/ \E p \in SeedPairs : FreeParticle_initialize(p[1], p[2])
  \/ \E t \in TimeValues : FreeParticle_getTimeWaveFunction(t)

FreeParticleSpec == FreeParticleInit /\ [][FreeParticleNext]_vars

(***************************************************************************)
(* The index arithmetic of the WebGPU kernels, one invocation at a time:   *)
(* the time step kernels (src/js/SchrodingerTuned.js:229-251,              *)
(* src/unnamed/part_005:272-297, src/unnamed/part_007:295-343) and the Mur *)
(* boundary kernels (src/unnamed/part_009:76-102, part_002:309-321).       *)
(***************************************************************************)
MaxGrid == 8

TimeStepKernels == {"timeStep", "realPartTimeStep", "imaginaryPartTimeStep"}
BoundaryKernels == {"recomputeBoundary", "recomputeRealBoundary",
                    "recomputeImaginaryBoundary"}

otherThanIndex ==
  <<integratorVars, boundaryVars, integralVars, dumpVars, freeParticleVars, passVars, dispatchVars,
    timestampVars>>

\* One invocation of a time step kernel that passes
\* "if (index >= parameters.xResolution) { return; }"
timeStep_invocation(k, index) ==
  /\ gridSize >= 1 /\ index < gridSize
  /\ invocation' = [kernel |-> k, index |-> index,
                    plus |-> timeStep_plusIndex(U32(gridSize), U32(index)),
                    minus |-> timeStep_minusIndex(U32(gridSize), U32(index))]
  /\ UNCHANGED <<otherThanIndex, gridSize>>

\* One of the two invocations of a Mur boundary kernel
recomputeBoundary_invocation(k, index) ==
  /\ gridSize >= 2
  /\ invocation' = [kernel |-> k, index |-> index,
                    edge |-> MurStorageBufferIndex(U32(gridSize), U32(index)),
                    neighbour |-> MurNeighbourIndex(U32(gridSize), U32(index))]
  /\ UNCHANGED <<otherThanIndex, gridSize>>

IndexInit ==
  /\ IntegratorInit /\ kind = "GPU2"
  /\ BoundaryIdle /\ IntegralIdle /\ DumpIdle /\ FreeParticleIdle
  /\ PassIdle /\ DispatchIdle /\ TimestampIdle
  /\ gridSize \in 2 .. MaxGrid
  /\ invocation = NoInvocation

IndexNext ==
  \/ \E k \in TimeStepKernels, index \in 0 .. MaxGrid - 1 : timeStep_invocation(k, index)
  \/ \E k \in BoundaryKernels, index \in 0 .. 1 : recomputeBoundary_invocation(k, index)

IndexSpec == IndexInit /\ [][IndexNext]_vars

(***************************************************************************)
(* One dispatch of a time step kernel with its invocations interleaved.    *)
(* An invocation loads waveFunction[index] and its two neighbours, then    *)
(* stores its results. The finite differences are taken with dt/(2 dx^2)   *)
(* = 1 and V = 0, in integers. index-1 wraps at index 0, so that load is   *)
(* past the end of the buffer: the device returns zeros or some element of *)
(* the buffer, the same way for every such load (outOfBounds).             *)
(***************************************************************************)
MaxThreads == 3
MaxLoops == 1
ZeroCell == [x |-> 0, y |-> 0]

\* buffer[index] for a u32 index; outOfBounds = n stands for zeros
ReadCell(b, index, oob) ==
  LET n == Cardinality(DOMAIN b)
  IN IF U32LessEq(index, U32(n - 1)) THEN b[U32Value(index)]
     ELSE IF oob = n THEN ZeroCell ELSE b[oob]

\* waveFunctionAtX.c -/+ (waveFunctionAtXPlusDx.o - 2.0*waveFunctionAtX.o
\* + waveFunctionAtXMinusDx.o) for the other component o
partTimeStepMutant(own, plus, minus, c) ==
  IF c = "x" THEN own.x - (plus.x - 2 * own.y + minus.x)
  ELSE own.y + (plus.y - 2 * own.x + minus.y)
partTimeStep(own, plus, minus, c) ==
  IF c = "x" THEN own.x - (plus.y - 2 * own.y + minus.y)
  ELSE own.y + (plus.x - 2 * own.x + minus.x)

\* The component a staggered kernel updates
OwnComponent(k) == IF k = "realPartTimeStep" THEN "x" ELSE "y"

\* The three loads of invocation j from the buffer b
LoadCells(b, j, oob) ==
  LET n == Cardinality(DOMAIN b)
  IN [own |-> b[j],
      plus |-> ReadCell(b, timeStep_plusIndex(U32(n), U32(j)), oob),
      minus |-> ReadCell(b, timeStep_minusIndex(U32(n), U32(j)), oob)]

otherThanPass ==
  <<integratorVars, integralVars, dumpVars, freeParticleVars, indexVars, dispatchVars,
    timestampVars,
    murCoefficient, lastPass, passes>>

\* realPartTimeStep / imaginaryPartTimeStep, invocation j: the loads
partTimeStep_load(j) ==
  /\ kernel \in {"realPartTimeStep", "imaginaryPartTimeStep"}
  /\ threads[j].pc = "start"
  /\ threads' = [threads EXCEPT ![j] =
                   [pc |-> "loaded", phase |-> 0,
                    cells |-> LoadCells(waveFunction, j, outOfBounds)]]
  /\ UNCHANGED <<otherThanPass, waveFunction, oldWaveFunction, kernel, atDispatch,
                 outOfBounds, updatedWaveFunction, loops>>

\* realPartTimeStep / imaginaryPartTimeStep, invocation j: the two stores
partTimeStep_store(j) ==
  /\ kernel \in {"realPartTimeStep", "imaginaryPartTimeStep"}
  /\ threads[j].pc = "loaded"
  /\ LET c == OwnComponent(kernel)
         l == threads[j].cells
     IN /\ oldWaveFunction' = [oldWaveFunction EXCEPT ![j][c] = l.own[c]]
        /\ waveFunction' = [waveFunction EXCEPT ![j][c] =
                              partTimeStep(l.own, l.plus, l.minus, c)]
  /\ threads' = [threads EXCEPT ![j].pc = "done"]
  /\ UNCHANGED <<otherThanPass, kernel, atDispatch, outOfBounds,
                 updatedWaveFunction, loops>>

\* Any contents of waveFunction, a dispatch of either kernel about to run
PassInit ==
  /\ IntegratorInit /\ kind = "Staggered"
  /\ IntegralIdle /\ DumpIdle /\ FreeParticleIdle /\ IndexIdle /\ DispatchIdle
  /\ TimestampIdle
  /\ murCoefficient = 0 /\ lastPass = "none" /\ passes = 0
  /\ kernel \in {"realPartTimeStep", "imaginaryPartTimeStep"}
  /\ waveFunction \in [0 .. MaxThreads - 1 -> [x : CellValues, y : CellValues]]
  /\ oldWaveFunction = [j \in 0 .. MaxThreads - 1 |-> ZeroCell]
  /\ atDispatch = waveFunction
  /\ outOfBounds \in 0 .. MaxThreads
  /\ threads = [j \in 0 .. MaxThreads - 1 |-> [pc |-> "start", phase |-> 0]]
  /\ updatedWaveFunction = <<>>
  /\ loops = 0

PassNext ==
  \E j \in 0 .. MaxThreads - 1 :
    \/ partTimeStep_load(j)
    \/ partTimeStep_store(j)

PassSpec == PassInit /\ [][PassNext]_vars

(***************************************************************************)
(* The fused kernel timeSteps of src/unnamed/part_004:266-302: one         *)
(* workgroup of xResolution invocations; phase 2i takes waveFunction to    *)
(* updatedWaveFunction, phase 2i+1 takes it back, a storageBarrier() after *)
(* each phase.                                                             *)
(***************************************************************************)
\* The buffer a phase reads is the one the next phase writes.
ReadsWaveFunction(p) == p % 2 = 0

\* One update of every cell of b: what a phase computes
SequentialStep(b, oob) ==
  [j \in DOMAIN b |->
     LET l == LoadCells(b, j, oob)
     IN [x |-> partTimeStep(l.own, l.plus, l.minus, "x"),
         y |-> partTimeStep(l.own, l.plus, l.minus, "y")]]

RECURSIVE SequentialSteps(_, _, _)
SequentialSteps(b, oob, k) ==
  IF k = 0 THEN b ELSE SequentialSteps(SequentialStep(b, oob), oob, k - 1)

\* storageBarrier() for invocation j: every invocation of the workgroup has
\* reached this barrier (or has gone past it).
storageBarrierMutant(j) == TRUE
storageBarrier(j) ==
  \A k \in DOMAIN threads :
    \/ threads[k].phase > threads[j].phase
    \/ threads[k].phase = threads[j].phase /\ threads[k].pc = "barrier"

otherThanFused ==
  <<integratorVars, integralVars, dumpVars, freeParticleVars, indexVars, dispatchVars,
    timestampVars,
    oldWaveFunction, murCoefficient, lastPass, passes, kernel, atDispatch,
    outOfBounds, loops>>

\* The three loads of invocation j in its current phase
timeSteps_load(j) ==
  /\ kernel = "timeSteps"
  /\ threads[j].pc = "start"
  /\ threads' = [threads EXCEPT ![j] =
       [pc |-> "loaded", phase |-> threads[j].phase,
        cells |-> LoadCells(IF ReadsWaveFunction(threads[j].phase)
                            THEN waveFunction ELSE updatedWaveFunction,
                            j, outOfBounds)]]
  /\ UNCHANGED <<otherThanFused, waveFunction, updatedWaveFunction>>

\* The two stores of invocation j in its current phase
timeSteps_store(j) ==
  /\ kernel = "timeSteps"
  /\ threads[j].pc = "loaded"
  /\ LET l == threads[j].cells
         v == [x |-> partTimeStep(l.own, l.plus, l.minus, "x"),
               y |-> partTimeStep(l.own, l.plus, l.minus, "y")]
     IN IF ReadsWaveFunction(threads[j].phase)
        THEN /\ updatedWaveFunction' = [updatedWaveFunction EXCEPT ![j] = v]
             /\ UNCHANGED waveFunction
        ELSE /\ waveFunction' = [waveFunction EXCEPT ![j] = v]
             /\ UNCHANGED updatedWaveFunction
  /\ threads' = [threads EXCEPT ![j] = [pc |-> "barrier", phase |-> threads[j].phase]]
  /\ UNCHANGED otherThanFused

\* Invocation j leaves the barrier: the next phase, or the end of the loop
timeSteps_proceed(j) ==
  /\ kernel = "timeSteps"
  /\ threads[j].pc = "barrier"
  /\ storageBarrier(j)
  /\ threads' = [threads EXCEPT ![j] =
       [pc |-> IF threads[j].phase + 1 = 2 * loops THEN "done" ELSE "start",
        phase |-> threads[j].phase + 1]]
  /\ UNCHANGED <<otherThanFused, waveFunction, updatedWaveFunction>>

FusedInit ==
  /\ IntegratorInit /\ kind = "Tuned"
  /\ IntegralIdle /\ DumpIdle /\ FreeParticleIdle /\ IndexIdle /\ DispatchIdle
  /\ TimestampIdle
  /\ oldWaveFunction = <<>>
  /\ murCoefficient = 0 /\ lastPass = "none" /\ passes = 0
  /\ kernel = "timeSteps"
  /\ waveFunction \in [0 .. MaxThreads - 1 -> [x : CellValues, y : {0}]]
  /\ updatedWaveFunction = [j \in 0 .. MaxThreads - 1 |-> ZeroCell]
  /\ atDispatch = waveFunction
  /\ outOfBounds \in 0 .. MaxThreads
  /\ loops \in 1 .. MaxLoops
  /\ threads = [j \in 0 .. MaxThreads - 1 |-> [pc |-> "start", phase |-> 0]]

FusedNext ==
  \E j \in 0 .. MaxThreads - 1 :
    \/ timeSteps_load(j)
    \/ timeSteps_store(j)
    \/ timeSteps_proceed(j)

FusedSpec == FusedInit /\ [][FusedNext]_vars

(***************************************************************************)
(* One dispatch of timeStep by step(): Math.ceil(xResolution / 64)         *)
(* workgroups of 64 invocations (src/js/SchrodingerTuned.js:229-251,       *)
(* 423-432), followed invocation by invocation in index order.             *)
(***************************************************************************)
WorkgroupSize == 64

\* Grid sizes around the workgroup boundaries
DispatchSizes == {1, 2, 63, 64, 65, 127, 128, 129}

\* The invocations of dispatchWorkgroups(workgroupCountX)
Invocations(n) == WorkgroupCount(n) * WorkgroupSize

\* The invocation with global_id.x = launched: it returns when index >=
\* parameters.xResolution, otherwise it stores updatedWaveFunction[index].
timeStep_run ==
  /\ writes # <<>>
  /\ launched < Invocations(gridSize)
  /\ writes' = IF launched >= gridSize THEN writes
               ELSE [writes EXCEPT ![launched] = @ + 1]
  /\ launched' = launched + 1
  /\ UNCHANGED <<integratorVars, boundaryVars, integralVars, dumpVars,
                 freeParticleVars, passVars, timestampVars, gridSize, invocation>>

DispatchInit ==
  /\ IntegratorInit /\ kind = "GPU2"
  /\ BoundaryIdle /\ IntegralIdle /\ DumpIdle /\ FreeParticleIdle /\ PassIdle
  /\ TimestampIdle
  /\ gridSize \in DispatchSizes
  /\ invocation = NoInvocation
  /\ writes = [index \in 0 .. Invocations(gridSize) + WorkgroupSize - 1 |-> 0]
  /\ launched = 0

DispatchNext == timeStep_run

DispatchSpec == DispatchInit /\ [][DispatchNext]_vars

(***************************************************************************)
(* The timestamp-instrumented two-buffer integrator: class Schrodinger of  *)
(* src/js/Matrix.js:259-733. step(count) is async: it submits one command  *)
(* buffer per time step, each ending in a copy of the query results into   *)
(* #timestampCopyBuffer, then awaits mapAsync on that buffer. Other         *)
(* handlers, a second step() among them, run while it waits.               *)
(***************************************************************************)
Callers == {1, 2}

otherThanTimestamp ==
  <<integratorVars, boundaryVars, integralVars, dumpVars, freeParticleVars,
    indexVars, passVars, dispatchVars>>

\* init(): the device with the timestamp-query feature and the query set and
\* its two buffers when the adapter has the feature, a plain device and no
\* query set or buffers otherwise.
Timestamp_init(has) ==
  /\ tsPhase = "new"
  /\ hasTimestampQuery' = has
  /\ timestampCopyBuffer' = IF has THEN "unmapped" ELSE "undefined"
  /\ tsPhase' = "ready"
  /\ UNCHANGED <<otherThanTimestamp, stepCalls, deviceError>>

\* The command buffers of the loop that queue.submit accepts: each holds a
\* copy into #timestampCopyBuffer, and a submit that uses a buffer which is
\* mapped or has a map pending is a validation error and executes nothing.
Timestamp_accepted(n) == IF timestampCopyBuffer = "unmapped" THEN n ELSE 0

\* step(count) from its entry to its await. Without the query set
\* beginComputePass({timestampWrites: {querySet: undefined, ...}}) throws a
\* TypeError in the first iteration, and with count = 0
\* this.#timestampCopyBuffer.mapAsync throws one: the promise is rejected.
\* With it, the loop submits count command buffers, then mapAsync starts a
\* map, or is rejected when one is pending already.
Timestamp_step(c, n) ==
  /\ tsPhase = "ready"
  /\ stepCalls[c].pc = "idle"
  /\ IF ~hasTimestampQuery
     THEN /\ stepCalls' = [stepCalls EXCEPT ![c] =
                             [pc |-> "rejected", count |-> n, executed |-> 0]]
          /\ UNCHANGED <<timestampCopyBuffer, deviceError>>
     ELSE /\ stepCalls' = [stepCalls EXCEPT ![c] =
                             [pc |-> IF timestampCopyBuffer = "unmapped"
                                     THEN "awaiting" ELSE "rejected",
                              count |-> n, executed |-> Timestamp_accepted(n)]]
          /\ deviceError' =
               IF deviceError # "none" \/ timestampCopyBuffer = "unmapped"
               THEN deviceError
               ELSE IF n > 0 THEN "submit: copy into a buffer with a map pending"
               ELSE "mapAsync: a map is pending"
          /\ timestampCopyBuffer' =
               IF timestampCopyBuffer = "unmapped" THEN "pending" ELSE timestampCopyBuffer
  /\ UNCHANGED <<otherThanTimestamp, tsPhase, hasTimestampQuery>>

\* The device completes the map: the buffer is mapped and the promise of
\* mapAsync resolves.
Timestamp_mapped ==
  /\ timestampCopyBuffer = "pending"
  /\ timestampCopyBuffer' = "mapped"
  /\ UNCHANGED <<otherThanTimestamp, tsPhase, hasTimestampQuery, stepCalls, deviceError>>

\* step(count) after its await: getMappedRange, the display, unmap()
Timestamp_stepResume(c) ==
  /\ stepCalls[c].pc = "awaiting"
  /\ timestampCopyBuffer = "mapped"
  /\ timestampCopyBuffer' = "unmapped"
  /\ stepCalls' = [stepCalls EXCEPT ![c].pc = "done"]
  /\ UNCHANGED <<otherThanTimestamp, tsPhase, hasTimestampQuery, deviceError>>

\* A caller that has its result may call step again.
Timestamp_return(c) ==
  /\ stepCalls[c].pc \in {"done", "rejected"}
  /\ stepCalls' = [stepCalls EXCEPT ![c] = [pc |-> "idle", count |-> 0, executed |-> 0]]
  /\ UNCHANGED <<otherThanTimestamp, tsPhase, hasTimestampQuery, timestampCopyBuffer,
                 deviceError>>

TimestampInit ==
  /\ IntegratorInit /\ kind = "GPU2"
  /\ BoundaryIdle /\ IntegralIdle /\ DumpIdle /\ FreeParticleIdle
  /\ IndexIdle /\ PassIdle /\ DispatchIdle
  /\ tsPhase = "new"
  /\ hasTimestampQuery = FALSE
  /\ timestampCopyBuffer = "undefined"
  /\ stepCalls = [c \in Callers |-> [pc |-> "idle", count |-> 0, executed |-> 0]]
  /\ deviceError = "none"

TimestampNext ==
  \/ \E has \in BOOLEAN : Timestamp_init(has)
  \/ \E c \in Callers, n \in 0 .. MaxCount : Timestamp_step(c, n)
  \/ Timestamp_mapped
  \/ \E c \in Callers :
       \/ Timestamp_stepResume(c)
       \/ Timestamp_return(c)

TimestampSpec == TimestampInit /\ [][TimestampNext]_vars

(***************************************************************************)
(* Properties.                                                             *)
(***************************************************************************)
\* getRenderedTexture() of the integrator the behaviour follows
getRenderedTexture ==
  CASE kind = "GL2" -> Schrodinger_getRenderedTexture
    [] kind = "GLMur" -> SchrodingerMurBoundary_getRenderedTexture
    [] OTHER -> SchrodingerLeapfrogPacked_getRenderedTexture

\* The adapter cannot give a workgroup of xResolution invocations.
LimitTooSmall ==
  adapterLimits.sizeX < xResolution \/ adapterLimits.invocations < xResolution

\* The number of passes of kernel k in the command sequence cmds
PassCount(cmds, k) == Cardinality({n \in 1 .. Len(cmds) : cmds[n].kernel = k})

\* C1: in each WebGL integrator, after one or more timestep() calls,
\* getRenderedTexture() is the texture attached to the framebuffer the most
\* recent timestep() rendered into.
C1_RenderedTextureIsLastTarget ==
  (kind \in GLKinds /\ Len(glLog) >= 1) =>
    /\ getRenderedTexture = glLog[Len(glLog)].target.tex
    /\ getRenderedTexture = glFramebuffer.tex
    /\ getRenderedTexture # NoTexture

C1_Witness ==
  kind = "GLMur" /\ Len(glLog) >= 4 /\ bcEnabled

\* C2: on the WebGPU two- and three-buffer integrators the rotation carries
\* over between step(count) calls: the first dispatch of a call reads the
\* buffer(s) the preceding dispatches wrote last and writes another one.
C2_RotationCarriesOver ==
  (kind \in {"GPU2", "GPU3"} /\ pc = "idle" /\ Len(log) >= 1) =>
    LET first == log[1]
        before == first.recentBefore
    IN /\ (kind = "GPU2" /\ before[2] # NoBuffer) =>
            (first.cur = before[2] /\ first.out # before[2])
       /\ (kind = "GPU3" /\ before[1] # NoBuffer) =>
            (first.old = before[1] /\ first.cur = before[2]
             /\ first.out \notin {before[1], before[2]})

\* C3: for a two-buffer integrator, after k >= 1 single-step calls
\* (timestep() or step(1)) the most recently written buffer has index k mod 2.
C3_LastWrittenIsKMod2 ==
  /\ (kind = "GL2" /\ Len(glLog) >= 1) =>
       glLog[Len(glLog)].targetIndex = Len(glLog) % 2
  /\ (kind = "GPU2" /\ pc = "idle" /\ single /\ calls >= 1) =>
       recent[2] = calls % 2

\* C4: in the WebGL three-texture integrators the texture written by the
\* n-th timestep() is the current wave function of the (n+1)-th, the old one
\* of the (n+2)-th and the render target of the (n+3)-th, and old, current
\* and target are three different textures in every timestep.
C4_ThreeTextureRotation ==
  (kind \in {"GLMur", "GLPacked"}) =>
    \A n \in 1 .. Len(glLog) :
      /\ Cardinality({glLog[n].target.tex, glLog[n].old, glLog[n].cur}) = 3
      /\ NoTexture \notin {glLog[n].target.tex, glLog[n].old, glLog[n].cur}
      /\ (n + 1 <= Len(glLog)) => glLog[n + 1].cur = glLog[n].target.tex
      /\ (n + 2 <= Len(glLog)) => glLog[n + 2].old = glLog[n].target.tex
      /\ (n + 3 <= Len(glLog)) => glLog[n + 3].target.tex = glLog[n].target.tex

C4_Witness ==
  kind = "GLMur" /\ Len(glLog) >= 5

\* C5: in the WebGPU three-buffer integrator seeded by initialize(buffer0,
\* buffer1) (levels 0 and 1) and stepped only with counts that are multiples
\* of 3, every dispatch reads as (old, current) the buffers holding levels
\* (n-1, n) and writes level n+1 into the third buffer, and after each call
\* the two latest levels are in buffer0 (older) and buffer1 (newer).
C5_AlignedCallsKeepLevels ==
  (kind = "GPU3" /\ seed = <<0, 1>> /\ aligned /\ pc = "idle") =>
    /\ \A n \in 1 .. Len(log) :
         /\ log[n].oldLevel >= 0
         /\ log[n].curLevel = log[n].oldLevel + 1
         /\ log[n].newLevel = log[n].curLevel + 1
         /\ Cardinality({log[n].old, log[n].cur, log[n].out}) = 3
    /\ buf[0] >= 0
    /\ buf[1] = buf[0] + 1
    /\ buf[2] <= buf[1]
    /\ (Len(log) >= 1) => buf[2] = buf[0] - 1

C5_Witness ==
  /\ kind = "GPU3" /\ seed = <<0, 1>> /\ aligned /\ pc = "idle"
  /\ calls = 2 /\ Len(log) = 3 /\ buf[1] = 7

\* The four passes of iteration it of the staggered integrator with boundary
\* conditions, in the order the claim gives
C6_IterationPasses(it) ==
  <<[kernel |-> "realPartTimeStep", group |-> 0, iter |-> it],
    [kernel |-> "recomputeRealBoundary", group |-> 0, iter |-> it],
    [kernel |-> "imaginaryPartTimeStep", group |-> 0, iter |-> it],
    [kernel |-> "recomputeImaginaryBoundary", group |-> 0, iter |-> it]>>

\* C6: the command sequence one step(count) call of the staggered integrator
\* encodes with boundary conditions enabled is, iteration after iteration,
\* real interior, real boundary, imaginary interior, imaginary boundary, and
\* no pass of a later iteration precedes a pass of an earlier one.
C6_InteriorThenBoundaryOrder ==
  (kind = "Staggered" /\ pc = "loop" /\ bcEnabled) =>
    /\ Len(encoder) = 4 * i
    /\ \A it \in 0 .. i - 1 :
         SubSeq(encoder, 4 * it + 1, 4 * it + 4) = C6_IterationPasses(it)
    /\ \A m, n \in 1 .. Len(encoder) : m < n => encoder[m].iter <= encoder[n].iter

C6_Witness ==
  kind = "Staggered" /\ pc = "loop" /\ bcEnabled /\ i = count /\ count >= 2

C8_WholeIterationsSubmitted ==
  (kind = "Staggered") =>
    /\ PassCount(submitted, "realPartTimeStep")
         = PassCount(submitted, "imaginaryPartTimeStep")
    /\ PassCount(submitted, "recomputeRealBoundary")
         = PassCount(submitted, "recomputeImaginaryBoundary")

C8_Witness ==
  kind = "Staggered" /\ pc = "idle" /\ count >= 2 /\ Len(submitted) >= 2 * count

\* C9 as the specification states it: with an adapter limit below
\* xResolution, init() of the workgroup-tuned integrator ends in an error.
C9_InitReportsLimit ==
  (kind = "Tuned" /\ phase = "ready" /\ LimitTooSmall) => thrown = "init"

\* C9, amended: with an adapter limit below xResolution, init() resolves
\* without an error and without creating a buffer; the Error is thrown by
\* step(), which submits nothing.
C9_StepReportsLimit ==
  (kind = "Tuned" /\ phase = "ready" /\ LimitTooSmall) =>
    /\ thrown \in {"none", "step"}
    /\ allocated = {}
    /\ submitted = <<>>
    /\ calls = 0

C9_Witness ==
  kind = "Tuned" /\ phase = "ready" /\ LimitTooSmall /\ thrown = "step"

\* C10: an integrator given xResolution < 3, dt <= 0 or length <= 0, or an
\* initializer given w <= 0, fails before any buffer is allocated and before
\* any dispatch is encoded: it never becomes ready.
C10_InvalidParametersRejected ==
  /\ (kind \in GPUKinds /\ phase # "new"
      /\ (xResolution < 3 \/ dt <= 0 \/ length <= 0)) =>
       /\ phase # "ready"
       /\ allocated = {}
       /\ encoder = <<>> /\ submitted = <<>>
  /\ (initializerPhase # "new" /\ w <= 0) =>
       /\ initializerPhase # "ready"
       /\ "Wave packet Parameters" \notin allocated
       /\ seed = <<>>

\* C11: a Mur boundary pass of the staggered scheme changes only the
\* updated component (real: x, imaginary: y) of waveFunction[0] and
\* waveFunction[N-1]; every other cell and component of waveFunction and all
\* of oldWaveFunction are unchanged.
C11_BoundaryPassFrame ==
  [][(passes' # passes) =>
       /\ oldWaveFunction' = oldWaveFunction
       /\ DOMAIN waveFunction' = DOMAIN waveFunction
       /\ \A j \in DOMAIN waveFunction :
            /\ (j \notin {0, CellCount(waveFunction) - 1}) =>
                 waveFunction'[j] = waveFunction[j]
            /\ (lastPass' = "real") => waveFunction'[j].y = waveFunction[j].y
            /\ (lastPass' = "imaginary") => waveFunction'[j].x = waveFunction[j].x]_vars

C11_Witness ==
  /\ lastPass = "real" /\ passes >= 2 /\ CellCount(waveFunction) = 3
  /\ waveFunction[0].x = 2 /\ waveFunction[2].y = 2

\* The sum of weight[j] * |Psi_j|^2 over j in lo .. hi
RECURSIVE SumOver(_, _, _, _)
SumOver(wf, lo, hi, weight) ==
  IF lo > hi THEN 0
  ELSE weight[lo] * Magnitude2(wf, lo) + SumOver(wf, lo + 1, hi, weight)

\* The number of samples N of the array being integrated
NumPoints == Len(wavefunction) \div 2

\* (length/(N-1)) * sum over i in 0..N-2 of (|Psi_i|^2 + |Psi_{i+1}|^2)/2
TrapezoidalRule ==
  LET weight == [j \in 0 .. NumPoints - 1 |-> IF j = 0 \/ j = NumPoints - 1 THEN 1 ELSE 2]
  IN Rational(physicalLength * SumOver(wavefunction, 0, NumPoints - 1, weight),
              2 * (NumPoints - 1))

\* (length/(3(N-1))) * (f_0 + 4 f_1 + 2 f_2 + ... + 4 f_{N-2} + f_{N-1})
SimpsonRule ==
  LET weight == [j \in 0 .. NumPoints - 1 |->
                IF j = 0 \/ j = NumPoints - 1 THEN 1
                ELSE IF j % 2 = 1 THEN 4 ELSE 2]
  IN Rational(physicalLength * SumOver(wavefunction, 0, NumPoints - 1, weight),
              3 * (NumPoints - 1))

\* C12: integrateWaveFunction(wavefunction, length) is the composite
\* trapezoidal rule of |Psi|^2 over the N samples, for every N >= 2.
C12_TrapezoidalRule ==
  (integral.op = "trapezoid") => RatEq(integral.value, TrapezoidalRule)

C12_Witness ==
  /\ integral.op = "trapezoid" /\ NumPoints = 4
  /\ Magnitude2(wavefunction, 1) = 2 /\ Magnitude2(wavefunction, 3) = 1
  /\ integral.value.num > 0

\* C13: simpson(wavefunction, length) is the composite Simpson rule of
\* |Psi|^2 over the N samples for every odd N >= 3, every interior sample
\* 1..N-2 weighing 4 (odd index) or 2 (even index).
C13_SimpsonRule ==
  (integral.op = "simpson" /\ NumPoints >= 3 /\ NumPoints % 2 = 1) =>
    RatEq(integral.value, SimpsonRule)

\* The time level initialize() left in buffer 0
SeededLevel0 == IF seed = <<0, 1>> THEN 0 ELSE 1

\* C14 as the specification states it: one step() of the workgroup-tuned
\* integrator built with iterations = n advances the wave function by n
\* time steps.
C14_StepAdvancesIterations ==
  (kind = "Tuned" /\ seed # <<>>) => buf[0] = SeededLevel0 + iterations * calls

\* C14, amended: one step() advances the wave function by 2 * n time steps
\* (each loop iteration of the kernel takes two), and the latest wave
\* function is in buffer 0 for every n, the one before it in buffer 1.
C14_StepAdvancesTwiceIterations ==
  (kind = "Tuned" /\ seed # <<>>) =>
    /\ buf[0] = SeededLevel0 + 2 * iterations * calls
    /\ (calls >= 1) => buf[1] = buf[0] - 1

C14_Witness ==
  kind = "Tuned" /\ seed = <<0, 1>> /\ iterations = 2 /\ calls = 2 /\ buf[0] = 8

\* C15: after init(), through setTimeStep, setXResolution, setLength and
\* step(), getTimeStep(), getXResolution() and getLength() return the dt, N
\* and L held by the parameters buffer the kernels read, and step()'s
\* workgroup count is computed from that same N.
C15_GettersAgreeWithParametersBuffer ==
  (kind = "GPU2" /\ phase = "ready") =>
    /\ <<GPU2_getTimeStep, GPU2_getXResolution, GPU2_getLength>> = parametersBuffer
    /\ \A n \in 1 .. Len(encoder) :
         encoder[n].workgroups = WorkgroupCount(parametersBuffer[2])

\* C16: the array returned by dumpWavefunction(buffer) holds the contents
\* of the buffer after exactly the commands submitted before the call, also
\* when further steps are submitted and executed while the read-back is
\* awaited or after it has resolved.
C16_SnapshotOfSubmittedWork ==
  (dumpPc = "done") => result = submittedBefore

\* A read-back has resolved although two more steps were submitted and
\* executed after the call.
C16_Witness ==
  /\ dumpPc = "done"
  /\ result = 1
  /\ buffer = 3
  /\ queue = <<>>

\* C19: getTimeWaveFunction(time) on an instance returned by getInstance(),
\* with or without a prior initialize() call, dispatches the kernel and
\* leaves Psi(x, time) in the time wave function buffer.
C19_StandaloneOracle ==
  (fpOutcome # "none") =>
    /\ fpOutcome = "filled"
    /\ timeWaveFunctionBuffer = timeBuffer

\* C18: on the staggered integrator every isBCEnabled() call returns a
\* value, the one of #bcEnabled (false on a new instance, afterwards the
\* argument of the last setBCEnabled call): no such call ends in an error.
C18_IsBCEnabledReturnsFlag ==
  (kind = "Staggered") => thrown # "isBCEnabled"

\* C17: in the WebGL integrators the framebuffers returned by
\* getSourceFramebuffer() / getSourceFramebuffers(), and the textures
\* returned by getSourceTextures(), before a timestep() wrap exactly the
\* textures that timestep() reads (two-buffer: the source; three-buffer:
\* old, then current), and never the texture it renders into.
C17_SourcesAreNextInputs ==
  [][(glLog' # glLog) =>
       LET e == glLog'[Len(glLog')]
       IN /\ (kind = "GL2") =>
               /\ Schrodinger_getSourceFramebuffer.tex = e.cur
               /\ Schrodinger_getSourceFramebuffer.tex # e.target.tex
          /\ (kind = "GLMur") =>
               /\ SchrodingerMurBoundary_getSourceFramebuffers[1].tex = e.old
               /\ SchrodingerMurBoundary_getSourceFramebuffers[2].tex = e.cur
               /\ SchrodingerMurBoundary_getSourceTextures = <<e.old, e.cur>>
               /\ e.target.tex \notin {e.old, e.cur}
          /\ (kind = "GLPacked") =>
               /\ SchrodingerLeapfrogPacked_getSourceFramebuffers[1].tex = e.old
               /\ SchrodingerLeapfrogPacked_getSourceFramebuffers[2].tex = e.cur
               /\ e.target.tex \notin {e.old, e.cur}
    ]_vars

\* Three timesteps of the three-texture integrator have run, and the sources
\* now offered are the current wave function and the target of the last one.
C17_Witness ==
  /\ kind = "GLMur" /\ Len(glLog) = 3
  /\ SchrodingerMurBoundary_getSourceTextures =
       <<glLog[3].cur, glLog[3].target.tex>>

\* C20: every timestep() of the WebGL integrators renders into a texture
\* that is none of the textures it reads, and every bind group of the WebGPU
\* two-buffer and three-buffer integrators binds pairwise distinct buffers,
\* so that no dispatch reads the buffer it writes.
C20_WrittenBufferIsNotRead ==
  /\ (kind \in GLKinds) =>
       \A n \in 1 .. Len(glLog) :
         /\ glLog[n].target.tex \notin {glLog[n].old, glLog[n].cur, PotentialTexture}
         /\ \A m \in 1 .. Len(glLog[n].boundary) :
              glLog[n].boundary[m].target.tex
                \notin {glLog[n].boundary[m].old, glLog[n].boundary[m].cur}
  /\ (kind = "GPU2" /\ phase = "ready") =>
       /\ \A g \in 0 .. 1 :
            GPU2_waveFunctionBindGroup(g).write # GPU2_waveFunctionBindGroup(g).read
       /\ \A n \in 1 .. Len(log) : log[n].out # log[n].cur
  /\ (kind = "GPU3" /\ phase = "ready") =>
       /\ \A g \in 0 .. 2 :
            Cardinality({GPU3_waveFunctionBindGroup(g).old,
                         GPU3_waveFunctionBindGroup(g).cur,
                         GPU3_waveFunctionBindGroup(g).out}) = 3
       /\ \A n \in 1 .. Len(log) : log[n].out \notin {log[n].old, log[n].cur}

\* A call of the two-buffer integrator has executed dispatches with both of
\* its bind groups.
C20_Witness ==
  /\ kind = "GPU2" /\ phase = "ready" /\ Len(log) >= 2
  /\ log[1].out # log[2].out

\* C21: in the time step kernels, for every grid size N >= 3 and every
\* index i in 0..N-1, min(i+1, N-1) and max(i-1, 0) in u32 arithmetic lie in
\* 0..N-1, and at i = 0 the left neighbour index is 0.
C21_NeighboursInRange ==
  (invocation.kernel \in TimeStepKernels /\ gridSize >= 3) =>
    /\ U32LessEq(invocation.plus, U32(gridSize - 1))
    /\ U32LessEq(invocation.minus, U32(gridSize - 1))
    /\ (invocation.index = 0) => invocation.minus = U32(0)

\* C27: in the Mur boundary kernels, for every N >= 2 and both invocations,
\* the edge index index*(N-1) is 0 or N-1 and the neighbour index edge +
\* (1 - 2*index), modulo 2^32, is 1 at the left edge and N-2 at the right
\* edge, so both accesses stay in 0..N-1.
C27_BoundaryIndicesInRange ==
  (invocation.kernel \in BoundaryKernels) =>
    /\ invocation.edge = U32(invocation.index * (gridSize - 1))
    /\ invocation.neighbour =
         (IF invocation.index = 0 THEN U32(1) ELSE U32(gridSize - 2))
    /\ U32LessEq(invocation.edge, U32(gridSize - 1))
    /\ U32LessEq(invocation.neighbour, U32(gridSize - 1))

\* The right edge invocation, whose offset wraps to 2^32 - 1, on two cells.
C27_Witness ==
  /\ invocation.kernel = "recomputeRealBoundary"
  /\ invocation.index = 1
  /\ gridSize = 2
  /\ invocation.neighbour = U32(0)

\* C22: in a pass of the staggered scheme the invocation for index i writes
\* only its own component of waveFunction[i] and oldWaveFunction[i] and uses
\* only the other component of its neighbours, so whatever the order and
\* interleaving of the invocations, each cell an invocation has finished
\* holds the value computed from the buffer as it was at dispatch, and every
\* other cell and component holds what it held at dispatch.
C22_PassIsOrderIndependent ==
  (kernel \in {"realPartTimeStep", "imaginaryPartTimeStep"}) =>
    LET c == OwnComponent(kernel)
        o == IF c = "x" THEN "y" ELSE "x"
    IN \A j \in DOMAIN threads :
         LET l == LoadCells(atDispatch, j, outOfBounds)
         IN /\ waveFunction[j][o] = atDispatch[j][o]
            /\ oldWaveFunction[j][o] = 0
            /\ IF threads[j].pc = "done"
               THEN /\ waveFunction[j][c] = partTimeStep(l.own, l.plus, l.minus, c)
                    /\ oldWaveFunction[j][c] = atDispatch[j][c]
               ELSE /\ waveFunction[j][c] = atDispatch[j][c]
                    /\ oldWaveFunction[j][c] = 0

\* A real pass has finished and changed the real part of the middle cell,
\* whose two neighbours exist.
C22_Witness ==
  /\ kernel = "realPartTimeStep"
  /\ \A j \in DOMAIN threads : threads[j].pc = "done"
  /\ waveFunction[1].x # atDispatch[1].x

\* C23: in the fused kernel, with every invocation waiting at
\* storageBarrier() for all the others, no invocation has a load pending
\* from a buffer another invocation still has to store into in its phase,
\* and when the loop has ended waveFunction holds the result of 2*iterations
\* sequential two-buffer updates and updatedWaveFunction the one before it,
\* whatever the scheduling of the invocations between the barriers.
C23_FusedEqualsSequential ==
  (kernel = "timeSteps") =>
    /\ \A j, k \in DOMAIN threads :
         (threads[j].pc = "start" /\ threads[k].pc \in {"start", "loaded"}) =>
           ReadsWaveFunction(threads[j].phase) = ReadsWaveFunction(threads[k].phase)
    /\ (\A j \in DOMAIN threads : threads[j].pc = "done") =>
         /\ waveFunction = SequentialSteps(atDispatch, outOfBounds, 2 * loops)
         /\ updatedWaveFunction = SequentialSteps(atDispatch, outOfBounds, 2 * loops - 1)

\* The loop has ended and has changed the wave function.
C23_Witness ==
  /\ kernel = "timeSteps"
  /\ \A j \in DOMAIN threads : threads[j].pc = "done"
  /\ waveFunction # atDispatch
  /\ waveFunction # updatedWaveFunction

\* C24: boundary conditions are disabled on a new SchrodingerMurBoundary,
\* and in each of its timestep() calls the boundary render, issued only when
\* they are enabled, comes before the rotation: it draws into the
\* framebuffer (step+2)%3 of the interior draw and samples the same old
\* texture textures[step] and current texture textures[(step+1)%3].
C24_BoundaryRenderInsideTimestep ==
  /\ (kind = "GLMur") => ~bcEnabled
  /\ [][(kind = "GLMur" /\ glLog' # glLog) =>
          LET e == glLog'[Len(glLog')]
          IN /\ e.target = fbos[(step + 2) % 3]
             /\ e.old = textures[step]
             /\ e.cur = textures[(step + 1) % 3]
             /\ step' = (step + 1) % 3
             /\ e.boundary =
                  (IF bcEnabled
                   THEN <<[target |-> fbos[(step + 2) % 3], old |-> textures[step],
                           cur |-> textures[(step + 1) % 3]]>>
                   ELSE <<>>)
       ]_vars

\* A timestep without and then one with the boundary render have run.
C24_Witness ==
  /\ kind = "GLMur" /\ Len(glLog) >= 2
  /\ glLog[1].boundary = <<>>
  /\ glLog[2].boundary # <<>>
  /\ glLog[2].boundary[1].target.tex = glLog[2].target.tex

\* C25: when phaseVelocity*dt = dx (the coefficient is zero) a staggered Mur
\* boundary pass sets the component it updates, at each end point, to the
\* value oldWaveFunction holds for the grid point next to that end
\* (oldWaveFunction[1] at the left, oldWaveFunction[N-2] at the right),
\* whatever waveFunction holds.
C25_ZeroCoefficientHoldsPreviousInterior ==
  [][(passes' # passes /\ murCoefficient = 0) =>
       LET c == IF lastPass' = "real" THEN "x" ELSE "y"
           n == CellCount(waveFunction)
       IN /\ waveFunction'[0][c] = oldWaveFunction[1][c]
          /\ waveFunction'[n - 1][c] = oldWaveFunction[n - 2][c]
    ]_vars

\* A real pass with coefficient zero on three cells has given the left end
\* the old value of cell 1, which differs from the value cell 1 holds now.
C25_Witness ==
  /\ murCoefficient = 0 /\ lastPass = "real" /\ passes = 1
  /\ CellCount(waveFunction) = 3
  /\ waveFunction[0].x = oldWaveFunction[1].x
  /\ waveFunction[1].x # oldWaveFunction[1].x

\* C26: one dispatch of ceil(N/64) workgroups of 64 invocations stores to
\* no index at or above N and to no index twice, and once all its
\* invocations have run every index 0..N-1 has been stored exactly once.
C26_DispatchCoversGrid ==
  (writes # <<>>) =>
    /\ \A index \in DOMAIN writes :
         /\ writes[index] <= 1
         /\ (index >= gridSize) => writes[index] = 0
    /\ (launched = Invocations(gridSize)) =>
         \A index \in 0 .. gridSize - 1 : writes[index] = 1

\* A dispatch of two workgroups for 65 points has finished.
C26_Witness ==
  /\ gridSize = 65
  /\ launched = 128
  /\ writes[64] = 1
  /\ writes[65] = 0

\* C28: on the two- and three-buffer WebGPU integrators a stop() call made
\* before a step(count) call starts does not shorten it: the call sets the
\* running flag on entry, and when no stop() runs during its loop (none can:
\* the loop is synchronous) it encodes and submits exactly count time steps.
C28_EarlierStopDoesNotShortenStep ==
  (kind \in {"GPU2", "GPU3"} /\ calls >= 1) =>
    /\ (pc = "loop") => (running /\ Len(encoder) = i /\ i <= count)
    /\ (pc = "idle") => Len(submitted) = count

\* The second step call found the flag cleared by a stop() and has
\* submitted its three time steps.
C28_Witness ==
  /\ kind = "GPU2" /\ pc = "idle" /\ calls = 2
  /\ ~runningAtEntry
  /\ count = 3 /\ Len(submitted) = 3

\* C29: however two step() calls on the timestamp-instrumented integrator
\* interleave, the timestamp copy buffer is never the destination of a
\* submitted copy, nor the target of mapAsync, while it is mapped or has a
\* map pending: the device raises no error on it and no call is rejected.
C29_CopyBufferNeverUsedWhileMapped ==
  (tsPhase = "ready" /\ hasTimestampQuery) =>
    /\ deviceError = "none"
    /\ \A c \in Callers : stepCalls[c].pc # "rejected"

\* C30: when the adapter has no timestamp queries, step(count) after init()
\* encodes and submits count time steps and resolves without error.
C30_StepWithoutTimestampQueries ==
  (tsPhase = "ready" /\ ~hasTimestampQuery) =>
    \A c \in Callers :
      /\ stepCalls[c].pc # "rejected"
      /\ (stepCalls[c].pc = "done") => stepCalls[c].executed = stepCalls[c].count

====
